---- MODULE Spec2Model ----
(***************************************************************************)
(* get_10k_section of compare_10k_app.py: the EDGAR listing fetch, the     *)
(* filing_regex search, the document fetch, the section_regex search and   *)
(* the cleaning pipeline, and the button handler that presents the result. *)
(*                                                                         *)
(* Text is a sequence of characters.  A character is a one-character       *)
(* string; a character that the TLA+ lexer rejects inside a string is      *)
(* written as its code point, four or more hexadecimal digits after "U+":  *)
(* "U+017F" is the long s and <<"a", "U+0663", "b">> is a, ARABIC-INDIC    *)
(* DIGIT THREE, b.  Every regular expression is an operator over such      *)
(* sequences that follows the semantics of Python's re for str patterns    *)
(* (leftmost match, greedy and lazy quantifiers, IGNORECASE, DOTALL, the   *)
(* Unicode classes of \s and \d).                                         *)
(*                                                                         *)
(* Notation: Only({ e(v) : v \in {x} }) is "e with v naming the value of   *)
(* x"; it is used where x is costly and e reads it more than once.         *)
(***************************************************************************)
EXTENDS Integers, Sequences, FiniteSets, TLC

Only(S) == CHOOSE x \in S : TRUE

\* ------------------------------------------------------------ characters
\* The classes and case mappings are those of CPython 3.11 (Unicode 14.0.0).

\* \s in a str pattern, and what str.strip() strips: str.isspace()
WS == {
    "\t", "\n", "", "\f", "\r", "", "", "",
    "", " ", "", " ", " ", "U+2000", "U+2001", "U+2002",
    "U+2003", "U+2004", "U+2005", "U+2006", "U+2007", "U+2008", "U+2009", "U+200A",
    "U+2028", "U+2029", "U+202F", "U+205F", "U+3000" }

DigitSeq == <<"0","1","2","3","4","5","6","7","8","9">>

\* the decimal digits beyond ASCII (category Nd)
UnicodeDigit == {
    "U+0660", "U+0661", "U+0662", "U+0663", "U+0664", "U+0665", "U+0666", "U+0667",
    "U+0668", "U+0669", "۰", "۱", "۲", "۳", "۴", "۵",
    "۶", "۷", "۸", "۹", "߀", "߁", "߂", "߃",
    "߄", "߅", "߆", "߇", "߈", "߉", "U+0966", "U+0967",
    "U+0968", "U+0969", "U+096A", "U+096B", "U+096C", "U+096D", "U+096E", "U+096F",
    "০", "১", "২", "৩", "৪", "৫", "৬", "৭",
    "৮", "৯", "U+0A66", "U+0A67", "U+0A68", "U+0A69", "U+0A6A", "U+0A6B",
    "U+0A6C", "U+0A6D", "U+0A6E", "U+0A6F", "૦", "૧", "૨", "૩",
    "૪", "૫", "૬", "૭", "૮", "૯", "U+0B66", "U+0B67",
    "U+0B68", "U+0B69", "U+0B6A", "U+0B6B", "U+0B6C", "U+0B6D", "U+0B6E", "U+0B6F",
    "௦", "௧", "௨", "௩", "௪", "௫", "௬", "௭",
    "௮", "௯", "U+0C66", "U+0C67", "U+0C68", "U+0C69", "U+0C6A", "U+0C6B",
    "U+0C6C", "U+0C6D", "U+0C6E", "U+0C6F", "೦", "೧", "೨", "೩",
    "೪", "೫", "೬", "೭", "೮", "೯", "U+0D66", "U+0D67",
    "U+0D68", "U+0D69", "U+0D6A", "U+0D6B", "U+0D6C", "U+0D6D", "U+0D6E", "U+0D6F",
    "෦", "෧", "෨", "෩", "෪", "෫", "෬", "෭",
    "෮", "෯", "U+0E50", "U+0E51", "U+0E52", "U+0E53", "U+0E54", "U+0E55",
    "U+0E56", "U+0E57", "U+0E58", "U+0E59", "໐", "໑", "໒", "໓",
    "໔", "໕", "໖", "໗", "໘", "໙", "U+0F20", "U+0F21",
    "U+0F22", "U+0F23", "U+0F24", "U+0F25", "U+0F26", "U+0F27", "U+0F28", "U+0F29",
    "U+1040", "U+1041", "U+1042", "U+1043", "U+1044", "U+1045", "U+1046", "U+1047",
    "U+1048", "U+1049", "႐", "႑", "႒", "႓", "႔", "႕",
    "႖", "႗", "႘", "႙", "០", "១", "២", "៣",
    "៤", "៥", "៦", "៧", "៨", "៩", "U+1810", "U+1811",
    "U+1812", "U+1813", "U+1814", "U+1815", "U+1816", "U+1817", "U+1818", "U+1819",
    "U+1946", "U+1947", "U+1948", "U+1949", "U+194A", "U+194B", "U+194C", "U+194D",
    "U+194E", "U+194F", "᧐", "᧑", "᧒", "᧓", "᧔", "᧕",
    "᧖", "᧗", "᧘", "᧙", "᪀", "᪁", "᪂", "᪃",
    "᪄", "᪅", "᪆", "᪇", "᪈", "᪉", "᪐", "᪑",
    "᪒", "᪓", "᪔", "᪕", "᪖", "᪗", "᪘", "᪙",
    "U+1B50", "U+1B51", "U+1B52", "U+1B53", "U+1B54", "U+1B55", "U+1B56", "U+1B57",
    "U+1B58", "U+1B59", "᮰", "᮱", "᮲", "᮳", "᮴", "᮵",
    "᮶", "᮷", "᮸", "᮹", "U+1C40", "U+1C41", "U+1C42", "U+1C43",
    "U+1C44", "U+1C45", "U+1C46", "U+1C47", "U+1C48", "U+1C49", "U+1C50", "U+1C51",
    "U+1C52", "U+1C53", "U+1C54", "U+1C55", "U+1C56", "U+1C57", "U+1C58", "U+1C59",
    "U+A620", "U+A621", "U+A622", "U+A623", "U+A624", "U+A625", "U+A626", "U+A627",
    "U+A628", "U+A629", "꣐", "꣑", "꣒", "꣓", "꣔", "꣕",
    "꣖", "꣗", "꣘", "꣙", "U+A900", "U+A901", "U+A902", "U+A903",
    "U+A904", "U+A905", "U+A906", "U+A907", "U+A908", "U+A909", "꧐", "꧑",
    "꧒", "꧓", "꧔", "꧕", "꧖", "꧗", "꧘", "꧙",
    "꧰", "꧱", "꧲", "꧳", "꧴", "꧵", "꧶", "꧷",
    "꧸", "꧹", "U+AA50", "U+AA51", "U+AA52", "U+AA53", "U+AA54", "U+AA55",
    "U+AA56", "U+AA57", "U+AA58", "U+AA59", "꯰", "꯱", "꯲", "꯳",
    "꯴", "꯵", "꯶", "꯷", "꯸", "꯹", "U+FF10", "U+FF11",
    "U+FF12", "U+FF13", "U+FF14", "U+FF15", "U+FF16", "U+FF17", "U+FF18", "U+FF19",
    "U+104A0", "U+104A1", "U+104A2", "U+104A3", "U+104A4", "U+104A5", "U+104A6", "U+104A7",
    "U+104A8", "U+104A9", "U+10D30", "U+10D31", "U+10D32", "U+10D33", "U+10D34", "U+10D35",
    "U+10D36", "U+10D37", "U+10D38", "U+10D39", "U+11066", "U+11067", "U+11068", "U+11069",
    "U+1106A", "U+1106B", "U+1106C", "U+1106D", "U+1106E", "U+1106F", "U+110F0", "U+110F1",
    "U+110F2", "U+110F3", "U+110F4", "U+110F5", "U+110F6", "U+110F7", "U+110F8", "U+110F9",
    "U+11136", "U+11137", "U+11138", "U+11139", "U+1113A", "U+1113B", "U+1113C", "U+1113D",
    "U+1113E", "U+1113F", "U+111D0", "U+111D1", "U+111D2", "U+111D3", "U+111D4", "U+111D5",
    "U+111D6", "U+111D7", "U+111D8", "U+111D9", "U+112F0", "U+112F1", "U+112F2", "U+112F3",
    "U+112F4", "U+112F5", "U+112F6", "U+112F7", "U+112F8", "U+112F9", "U+11450", "U+11451",
    "U+11452", "U+11453", "U+11454", "U+11455", "U+11456", "U+11457", "U+11458", "U+11459",
    "U+114D0", "U+114D1", "U+114D2", "U+114D3", "U+114D4", "U+114D5", "U+114D6", "U+114D7",
    "U+114D8", "U+114D9", "U+11650", "U+11651", "U+11652", "U+11653", "U+11654", "U+11655",
    "U+11656", "U+11657", "U+11658", "U+11659", "U+116C0", "U+116C1", "U+116C2", "U+116C3",
    "U+116C4", "U+116C5", "U+116C6", "U+116C7", "U+116C8", "U+116C9", "U+11730", "U+11731",
    "U+11732", "U+11733", "U+11734", "U+11735", "U+11736", "U+11737", "U+11738", "U+11739",
    "U+118E0", "U+118E1", "U+118E2", "U+118E3", "U+118E4", "U+118E5", "U+118E6", "U+118E7",
    "U+118E8", "U+118E9", "U+11950", "U+11951", "U+11952", "U+11953", "U+11954", "U+11955",
    "U+11956", "U+11957", "U+11958", "U+11959", "U+11C50", "U+11C51", "U+11C52", "U+11C53",
    "U+11C54", "U+11C55", "U+11C56", "U+11C57", "U+11C58", "U+11C59", "U+11D50", "U+11D51",
    "U+11D52", "U+11D53", "U+11D54", "U+11D55", "U+11D56", "U+11D57", "U+11D58", "U+11D59",
    "U+11DA0", "U+11DA1", "U+11DA2", "U+11DA3", "U+11DA4", "U+11DA5", "U+11DA6", "U+11DA7",
    "U+11DA8", "U+11DA9", "U+16A60", "U+16A61", "U+16A62", "U+16A63", "U+16A64", "U+16A65",
    "U+16A66", "U+16A67", "U+16A68", "U+16A69", "U+16AC0", "U+16AC1", "U+16AC2", "U+16AC3",
    "U+16AC4", "U+16AC5", "U+16AC6", "U+16AC7", "U+16AC8", "U+16AC9", "U+16B50", "U+16B51",
    "U+16B52", "U+16B53", "U+16B54", "U+16B55", "U+16B56", "U+16B57", "U+16B58", "U+16B59",
    "U+1D7CE", "U+1D7CF", "U+1D7D0", "U+1D7D1", "U+1D7D2", "U+1D7D3", "U+1D7D4", "U+1D7D5",
    "U+1D7D6", "U+1D7D7", "U+1D7D8", "U+1D7D9", "U+1D7DA", "U+1D7DB", "U+1D7DC", "U+1D7DD",
    "U+1D7DE", "U+1D7DF", "U+1D7E0", "U+1D7E1", "U+1D7E2", "U+1D7E3", "U+1D7E4", "U+1D7E5",
    "U+1D7E6", "U+1D7E7", "U+1D7E8", "U+1D7E9", "U+1D7EA", "U+1D7EB", "U+1D7EC", "U+1D7ED",
    "U+1D7EE", "U+1D7EF", "U+1D7F0", "U+1D7F1", "U+1D7F2", "U+1D7F3", "U+1D7F4", "U+1D7F5",
    "U+1D7F6", "U+1D7F7", "U+1D7F8", "U+1D7F9", "U+1D7FA", "U+1D7FB", "U+1D7FC", "U+1D7FD",
    "U+1D7FE", "U+1D7FF", "U+1E140", "U+1E141", "U+1E142", "U+1E143", "U+1E144", "U+1E145",
    "U+1E146", "U+1E147", "U+1E148", "U+1E149", "U+1E2F0", "U+1E2F1", "U+1E2F2", "U+1E2F3",
    "U+1E2F4", "U+1E2F5", "U+1E2F6", "U+1E2F7", "U+1E2F8", "U+1E2F9", "U+1E950", "U+1E951",
    "U+1E952", "U+1E953", "U+1E954", "U+1E955", "U+1E956", "U+1E957", "U+1E958", "U+1E959",
    "U+1FBF0", "U+1FBF1", "U+1FBF2", "U+1FBF3", "U+1FBF4", "U+1FBF5", "U+1FBF6", "U+1FBF7",
    "U+1FBF8", "U+1FBF9" }

\* \d in a str pattern
Digit == {DigitSeq[k] : k \in 1..Len(DigitSeq)} \cup UnicodeDigit

UpperSeq == <<"A","B","C","D","E","F","G","H","I","J","K","L","M","N","O","P","Q","R","S","T","U","V","W","X","Y","Z">>

LowerSeq == <<"a","b","c","d","e","f","g","h","i","j","k","l","m","n","o","p","q","r","s","t","u","v","w","x","y","z">>

\* [A-Z]
Upper == {UpperSeq[k] : k \in 1..Len(UpperSeq)}

Lower == {LowerSeq[k] : k \in 1..Len(LowerSeq)}

\* [a-zA-Z]
Alpha == Upper \cup Lower

\* the characters beyond ASCII that re.IGNORECASE lets an ASCII letter of a
\* pattern match, each with that letter: the long s, the Kelvin sign, the
\* dotted capital I and the dotless small i
FoldPairs == { <<"U+0130", "i">>, <<"U+0131", "i">>, <<"U+017F", "s">>, <<"U+212A", "k">> }

FoldChars == {p[1] : p \in FoldPairs}

\* [A-Z] under re.IGNORECASE
AlphaIgnoreCase == Alpha \cup FoldChars

\* what re.IGNORECASE compares of a character against the ASCII literals
\* of the patterns: the small letter it folds to
ToLower(c) ==
    IF c \in Upper
    THEN LowerSeq[CHOOSE k \in 1..Len(UpperSeq) : UpperSeq[k] = c]
    ELSE IF c \in FoldChars
    THEN (CHOOSE p \in FoldPairs : p[1] = c)[2]
    ELSE c

\* the characters beyond ASCII that str.upper() changes, each with what it
\* becomes (one to three characters)
UpperPairs == {
    <<"µ", <<"Μ">>>>, <<"ß", <<"S","S">>>>, <<"à", <<"À">>>>, <<"á", <<"Á">>>>,
    <<"â", <<"Â">>>>, <<"ã", <<"Ã">>>>, <<"ä", <<"Ä">>>>, <<"å", <<"Å">>>>,
    <<"æ", <<"Æ">>>>, <<"ç", <<"Ç">>>>, <<"è", <<"È">>>>, <<"é", <<"É">>>>,
    <<"ê", <<"Ê">>>>, <<"ë", <<"Ë">>>>, <<"ì", <<"Ì">>>>, <<"í", <<"Í">>>>,
    <<"î", <<"Î">>>>, <<"ï", <<"Ï">>>>, <<"ð", <<"Ð">>>>, <<"ñ", <<"Ñ">>>>,
    <<"ò", <<"Ò">>>>, <<"ó", <<"Ó">>>>, <<"ô", <<"Ô">>>>, <<"õ", <<"Õ">>>>,
    <<"ö", <<"Ö">>>>, <<"ø", <<"Ø">>>>, <<"ù", <<"Ù">>>>, <<"ú", <<"Ú">>>>,
    <<"û", <<"Û">>>>, <<"ü", <<"Ü">>>>, <<"ý", <<"Ý">>>>, <<"þ", <<"Þ">>>>,
    <<"ÿ", <<"U+0178">>>>, <<"U+0101", <<"U+0100">>>>, <<"U+0103", <<"U+0102">>>>, <<"U+0105", <<"U+0104">>>>,
    <<"U+0107", <<"U+0106">>>>, <<"U+0109", <<"U+0108">>>>, <<"U+010B", <<"U+010A">>>>, <<"U+010D", <<"U+010C">>>>,
    <<"U+010F", <<"U+010E">>>>, <<"U+0111", <<"U+0110">>>>, <<"U+0113", <<"U+0112">>>>, <<"U+0115", <<"U+0114">>>>,
    <<"U+0117", <<"U+0116">>>>, <<"U+0119", <<"U+0118">>>>, <<"U+011B", <<"U+011A">>>>, <<"U+011D", <<"U+011C">>>>,
    <<"U+011F", <<"U+011E">>>>, <<"U+0121", <<"U+0120">>>>, <<"U+0123", <<"U+0122">>>>, <<"U+0125", <<"U+0124">>>>,
    <<"U+0127", <<"U+0126">>>>, <<"U+0129", <<"U+0128">>>>, <<"U+012B", <<"U+012A">>>>, <<"U+012D", <<"U+012C">>>>,
    <<"U+012F", <<"U+012E">>>>, <<"U+0131", <<"I">>>>, <<"U+0133", <<"U+0132">>>>, <<"U+0135", <<"U+0134">>>>,
    <<"U+0137", <<"U+0136">>>>, <<"U+013A", <<"U+0139">>>>, <<"U+013C", <<"U+013B">>>>, <<"U+013E", <<"U+013D">>>>,
    <<"U+0140", <<"U+013F">>>>, <<"U+0142", <<"U+0141">>>>, <<"U+0144", <<"U+0143">>>>, <<"U+0146", <<"U+0145">>>>,
    <<"U+0148", <<"U+0147">>>>, <<"U+0149", <<"ʼ","N">>>>, <<"U+014B", <<"U+014A">>>>, <<"U+014D", <<"U+014C">>>>,
    <<"U+014F", <<"U+014E">>>>, <<"U+0151", <<"U+0150">>>>, <<"U+0153", <<"U+0152">>>>, <<"U+0155", <<"U+0154">>>>,
    <<"U+0157", <<"U+0156">>>>, <<"U+0159", <<"U+0158">>>>, <<"U+015B", <<"U+015A">>>>, <<"U+015D", <<"U+015C">>>>,
    <<"U+015F", <<"U+015E">>>>, <<"U+0161", <<"U+0160">>>>, <<"U+0163", <<"U+0162">>>>, <<"U+0165", <<"U+0164">>>>,
    <<"U+0167", <<"U+0166">>>>, <<"U+0169", <<"U+0168">>>>, <<"U+016B", <<"U+016A">>>>, <<"U+016D", <<"U+016C">>>>,
    <<"U+016F", <<"U+016E">>>>, <<"U+0171", <<"U+0170">>>>, <<"U+0173", <<"U+0172">>>>, <<"U+0175", <<"U+0174">>>>,
    <<"U+0177", <<"U+0176">>>>, <<"U+017A", <<"U+0179">>>>, <<"U+017C", <<"U+017B">>>>, <<"U+017E", <<"U+017D">>>>,
    <<"U+017F", <<"S">>>>, <<"ƀ", <<"U+0243">>>>, <<"ƃ", <<"Ƃ">>>>, <<"ƅ", <<"Ƅ">>>>,
    <<"ƈ", <<"Ƈ">>>>, <<"ƌ", <<"Ƌ">>>>, <<"ƒ", <<"Ƒ">>>>, <<"ƕ", <<"Ƕ">>>>,
    <<"ƙ", <<"Ƙ">>>>, <<"ƚ", <<"U+023D">>>>, <<"ƞ", <<"U+0220">>>>, <<"ơ", <<"Ơ">>>>,
    <<"ƣ", <<"Ƣ">>>>, <<"ƥ", <<"Ƥ">>>>, <<"ƨ", <<"Ƨ">>>>, <<"ƭ", <<"Ƭ">>>>,
    <<"ư", <<"Ư">>>>, <<"ƴ", <<"Ƴ">>>>, <<"ƶ", <<"Ƶ">>>>, <<"ƹ", <<"Ƹ">>>>,
    <<"ƽ", <<"Ƽ">>>>, <<"ƿ", <<"Ƿ">>>>, <<"ǅ", <<"Ǆ">>>>, <<"ǆ", <<"Ǆ">>>>,
    <<"ǈ", <<"Ǉ">>>>, <<"ǉ", <<"Ǉ">>>>, <<"ǋ", <<"Ǌ">>>>, <<"ǌ", <<"Ǌ">>>>,
    <<"ǎ", <<"Ǎ">>>>, <<"ǐ", <<"Ǐ">>>>, <<"ǒ", <<"Ǒ">>>>, <<"ǔ", <<"Ǔ">>>>,
    <<"ǖ", <<"Ǖ">>>>, <<"ǘ", <<"Ǘ">>>>, <<"ǚ", <<"Ǚ">>>>, <<"ǜ", <<"Ǜ">>>>,
    <<"ǝ", <<"Ǝ">>>>, <<"ǟ", <<"Ǟ">>>>, <<"ǡ", <<"Ǡ">>>>, <<"ǣ", <<"Ǣ">>>>,
    <<"ǥ", <<"Ǥ">>>>, <<"ǧ", <<"Ǧ">>>>, <<"ǩ", <<"Ǩ">>>>, <<"ǫ", <<"Ǫ">>>>,
    <<"ǭ", <<"Ǭ">>>>, <<"ǯ", <<"Ǯ">>>>, <<"ǰ", <<"J","U+030C">>>>, <<"ǲ", <<"Ǳ">>>>,
    <<"ǳ", <<"Ǳ">>>>, <<"ǵ", <<"Ǵ">>>>, <<"ǹ", <<"Ǹ">>>>, <<"ǻ", <<"Ǻ">>>>,
    <<"ǽ", <<"Ǽ">>>>, <<"ǿ", <<"Ǿ">>>>, <<"U+0201", <<"U+0200">>>>, <<"U+0203", <<"U+0202">>>>,
    <<"U+0205", <<"U+0204">>>>, <<"U+0207", <<"U+0206">>>>, <<"U+0209", <<"U+0208">>>>, <<"U+020B", <<"U+020A">>>>,
    <<"U+020D", <<"U+020C">>>>, <<"U+020F", <<"U+020E">>>>, <<"U+0211", <<"U+0210">>>>, <<"U+0213", <<"U+0212">>>>,
    <<"U+0215", <<"U+0214">>>>, <<"U+0217", <<"U+0216">>>>, <<"U+0219", <<"U+0218">>>>, <<"U+021B", <<"U+021A">>>>,
    <<"U+021D", <<"U+021C">>>>, <<"U+021F", <<"U+021E">>>>, <<"U+0223", <<"U+0222">>>>, <<"U+0225", <<"U+0224">>>>,
    <<"U+0227", <<"U+0226">>>>, <<"U+0229", <<"U+0228">>>>, <<"U+022B", <<"U+022A">>>>, <<"U+022D", <<"U+022C">>>>,
    <<"U+022F", <<"U+022E">>>>, <<"U+0231", <<"U+0230">>>>, <<"U+0233", <<"U+0232">>>>, <<"U+023C", <<"U+023B">>>>,
    <<"U+023F", <<"U+2C7E">>>>, <<"U+0240", <<"U+2C7F">>>>, <<"U+0242", <<"U+0241">>>>, <<"U+0247", <<"U+0246">>>>,
    <<"U+0249", <<"U+0248">>>>, <<"U+024B", <<"U+024A">>>>, <<"U+024D", <<"U+024C">>>>, <<"U+024F", <<"U+024E">>>>,
    <<"U+0250", <<"U+2C6F">>>>, <<"U+0251", <<"U+2C6D">>>>, <<"U+0252", <<"U+2C70">>>>, <<"U+0253", <<"Ɓ">>>>,
    <<"U+0254", <<"Ɔ">>>>, <<"U+0256", <<"Ɖ">>>>, <<"U+0257", <<"Ɗ">>>>, <<"U+0259", <<"Ə">>>>,
    <<"U+025B", <<"Ɛ">>>>, <<"U+025C", <<"Ɜ">>>>, <<"U+0260", <<"Ɠ">>>>, <<"U+0261", <<"Ɡ">>>>,
    <<"U+0263", <<"Ɣ">>>>, <<"U+0265", <<"Ɥ">>>>, <<"U+0266", <<"Ɦ">>>>, <<"U+0268", <<"Ɨ">>>>,
    <<"U+0269", <<"Ɩ">>>>, <<"U+026A", <<"Ɪ">>>>, <<"U+026B", <<"U+2C62">>>>, <<"U+026C", <<"Ɬ">>>>,
    <<"U+026F", <<"Ɯ">>>>, <<"U+0271", <<"U+2C6E">>>>, <<"U+0272", <<"Ɲ">>>>, <<"U+0275", <<"Ɵ">>>>,
    <<"U+027D", <<"U+2C64">>>>, <<"ʀ", <<"Ʀ">>>>, <<"ʂ", <<"Ʂ">>>>, <<"ʃ", <<"Ʃ">>>>,
    <<"ʇ", <<"Ʇ">>>>, <<"ʈ", <<"Ʈ">>>>, <<"ʉ", <<"U+0244">>>>, <<"ʊ", <<"Ʊ">>>>,
    <<"ʋ", <<"Ʋ">>>>, <<"ʌ", <<"U+0245">>>>, <<"ʒ", <<"Ʒ">>>>, <<"ʝ", <<"Ʝ">>>>,
    <<"ʞ", <<"Ʞ">>>>, <<"U+0345", <<"Ι">>>>, <<"U+0371", <<"U+0370">>>>, <<"U+0373", <<"U+0372">>>>,
    <<"U+0377", <<"U+0376">>>>, <<"U+037B", <<"Ͻ">>>>, <<"U+037C", <<"Ͼ">>>>, <<"U+037D", <<"Ͽ">>>>,
    <<"ΐ", <<"Ι","U+0308","U+0301">>>>, <<"ά", <<"Ά">>>>, <<"έ", <<"Έ">>>>, <<"ή", <<"Ή">>>>,
    <<"ί", <<"Ί">>>>, <<"ΰ", <<"Υ","U+0308","U+0301">>>>, <<"α", <<"Α">>>>, <<"β", <<"Β">>>>,
    <<"γ", <<"Γ">>>>, <<"δ", <<"Δ">>>>, <<"ε", <<"Ε">>>>, <<"ζ", <<"Ζ">>>>,
    <<"η", <<"Η">>>>, <<"θ", <<"Θ">>>>, <<"ι", <<"Ι">>>>, <<"κ", <<"Κ">>>>,
    <<"λ", <<"Λ">>>>, <<"μ", <<"Μ">>>>, <<"ν", <<"Ν">>>>, <<"ξ", <<"Ξ">>>>,
    <<"ο", <<"Ο">>>>, <<"π", <<"Π">>>>, <<"ρ", <<"Ρ">>>>, <<"ς", <<"Σ">>>>,
    <<"σ", <<"Σ">>>>, <<"τ", <<"Τ">>>>, <<"υ", <<"Υ">>>>, <<"φ", <<"Φ">>>>,
    <<"χ", <<"Χ">>>>, <<"ψ", <<"Ψ">>>>, <<"ω", <<"Ω">>>>, <<"ϊ", <<"Ϊ">>>>,
    <<"ϋ", <<"Ϋ">>>>, <<"ό", <<"Ό">>>>, <<"ύ", <<"Ύ">>>>, <<"ώ", <<"Ώ">>>>,
    <<"ϐ", <<"Β">>>>, <<"ϑ", <<"Θ">>>>, <<"ϕ", <<"Φ">>>>, <<"ϖ", <<"Π">>>>,
    <<"ϗ", <<"Ϗ">>>>, <<"ϙ", <<"Ϙ">>>>, <<"ϛ", <<"Ϛ">>>>, <<"ϝ", <<"Ϝ">>>>,
    <<"ϟ", <<"Ϟ">>>>, <<"ϡ", <<"Ϡ">>>>, <<"ϣ", <<"Ϣ">>>>, <<"ϥ", <<"Ϥ">>>>,
    <<"ϧ", <<"Ϧ">>>>, <<"ϩ", <<"Ϩ">>>>, <<"ϫ", <<"Ϫ">>>>, <<"ϭ", <<"Ϭ">>>>,
    <<"ϯ", <<"Ϯ">>>>, <<"ϰ", <<"Κ">>>>, <<"ϱ", <<"Ρ">>>>, <<"ϲ", <<"Ϲ">>>>,
    <<"ϳ", <<"U+037F">>>>, <<"ϵ", <<"Ε">>>>, <<"ϸ", <<"Ϸ">>>>, <<"ϻ", <<"Ϻ">>>>,
    <<"U+0430", <<"U+0410">>>>, <<"U+0431", <<"U+0411">>>>, <<"U+0432", <<"U+0412">>>>, <<"U+0433", <<"U+0413">>>>,
    <<"U+0434", <<"U+0414">>>>, <<"U+0435", <<"U+0415">>>>, <<"U+0436", <<"U+0416">>>>, <<"U+0437", <<"U+0417">>>>,
    <<"U+0438", <<"U+0418">>>>, <<"U+0439", <<"U+0419">>>>, <<"U+043A", <<"U+041A">>>>, <<"U+043B", <<"U+041B">>>>,
    <<"U+043C", <<"U+041C">>>>, <<"U+043D", <<"U+041D">>>>, <<"U+043E", <<"U+041E">>>>, <<"U+043F", <<"U+041F">>>>,
    <<"U+0440", <<"U+0420">>>>, <<"U+0441", <<"U+0421">>>>, <<"U+0442", <<"U+0422">>>>, <<"U+0443", <<"U+0423">>>>,
    <<"U+0444", <<"U+0424">>>>, <<"U+0445", <<"U+0425">>>>, <<"U+0446", <<"U+0426">>>>, <<"U+0447", <<"U+0427">>>>,
    <<"U+0448", <<"U+0428">>>>, <<"U+0449", <<"U+0429">>>>, <<"U+044A", <<"U+042A">>>>, <<"U+044B", <<"U+042B">>>>,
    <<"U+044C", <<"U+042C">>>>, <<"U+044D", <<"U+042D">>>>, <<"U+044E", <<"U+042E">>>>, <<"U+044F", <<"U+042F">>>>,
    <<"U+0450", <<"U+0400">>>>, <<"U+0451", <<"U+0401">>>>, <<"U+0452", <<"U+0402">>>>, <<"U+0453", <<"U+0403">>>>,
    <<"U+0454", <<"U+0404">>>>, <<"U+0455", <<"U+0405">>>>, <<"U+0456", <<"U+0406">>>>, <<"U+0457", <<"U+0407">>>>,
    <<"U+0458", <<"U+0408">>>>, <<"U+0459", <<"U+0409">>>>, <<"U+045A", <<"U+040A">>>>, <<"U+045B", <<"U+040B">>>>,
    <<"U+045C", <<"U+040C">>>>, <<"U+045D", <<"U+040D">>>>, <<"U+045E", <<"U+040E">>>>, <<"U+045F", <<"U+040F">>>>,
    <<"U+0461", <<"U+0460">>>>, <<"U+0463", <<"U+0462">>>>, <<"U+0465", <<"U+0464">>>>, <<"U+0467", <<"U+0466">>>>,
    <<"U+0469", <<"U+0468">>>>, <<"U+046B", <<"U+046A">>>>, <<"U+046D", <<"U+046C">>>>, <<"U+046F", <<"U+046E">>>>,
    <<"U+0471", <<"U+0470">>>>, <<"U+0473", <<"U+0472">>>>, <<"U+0475", <<"U+0474">>>>, <<"U+0477", <<"U+0476">>>>,
    <<"U+0479", <<"U+0478">>>>, <<"U+047B", <<"U+047A">>>>, <<"U+047D", <<"U+047C">>>>, <<"U+047F", <<"U+047E">>>>,
    <<"ҁ", <<"Ҁ">>>>, <<"ҋ", <<"Ҋ">>>>, <<"ҍ", <<"Ҍ">>>>, <<"ҏ", <<"Ҏ">>>>,
    <<"ґ", <<"Ґ">>>>, <<"ғ", <<"Ғ">>>>, <<"ҕ", <<"Ҕ">>>>, <<"җ", <<"Җ">>>>,
    <<"ҙ", <<"Ҙ">>>>, <<"қ", <<"Қ">>>>, <<"ҝ", <<"Ҝ">>>>, <<"ҟ", <<"Ҟ">>>>,
    <<"ҡ", <<"Ҡ">>>>, <<"ң", <<"Ң">>>>, <<"ҥ", <<"Ҥ">>>>, <<"ҧ", <<"Ҧ">>>>,
    <<"ҩ", <<"Ҩ">>>>, <<"ҫ", <<"Ҫ">>>>, <<"ҭ", <<"Ҭ">>>>, <<"ү", <<"Ү">>>>,
    <<"ұ", <<"Ұ">>>>, <<"ҳ", <<"Ҳ">>>>, <<"ҵ", <<"Ҵ">>>>, <<"ҷ", <<"Ҷ">>>>,
    <<"ҹ", <<"Ҹ">>>>, <<"һ", <<"Һ">>>>, <<"ҽ", <<"Ҽ">>>>, <<"ҿ", <<"Ҿ">>>>,
    <<"ӂ", <<"Ӂ">>>>, <<"ӄ", <<"Ӄ">>>>, <<"ӆ", <<"Ӆ">>>>, <<"ӈ", <<"Ӈ">>>>,
    <<"ӊ", <<"Ӊ">>>>, <<"ӌ", <<"Ӌ">>>>, <<"ӎ", <<"Ӎ">>>>, <<"ӏ", <<"Ӏ">>>>,
    <<"ӑ", <<"Ӑ">>>>, <<"ӓ", <<"Ӓ">>>>, <<"ӕ", <<"Ӕ">>>>, <<"ӗ", <<"Ӗ">>>>,
    <<"ә", <<"Ә">>>>, <<"ӛ", <<"Ӛ">>>>, <<"ӝ", <<"Ӝ">>>>, <<"ӟ", <<"Ӟ">>>>,
    <<"ӡ", <<"Ӡ">>>>, <<"ӣ", <<"Ӣ">>>>, <<"ӥ", <<"Ӥ">>>>, <<"ӧ", <<"Ӧ">>>>,
    <<"ө", <<"Ө">>>>, <<"ӫ", <<"Ӫ">>>>, <<"ӭ", <<"Ӭ">>>>, <<"ӯ", <<"Ӯ">>>>,
    <<"ӱ", <<"Ӱ">>>>, <<"ӳ", <<"Ӳ">>>>, <<"ӵ", <<"Ӵ">>>>, <<"ӷ", <<"Ӷ">>>>,
    <<"ӹ", <<"Ӹ">>>>, <<"ӻ", <<"Ӻ">>>>, <<"ӽ", <<"Ӽ">>>>, <<"ӿ", <<"Ӿ">>>>,
    <<"U+0501", <<"U+0500">>>>, <<"U+0503", <<"U+0502">>>>, <<"U+0505", <<"U+0504">>>>, <<"U+0507", <<"U+0506">>>>,
    <<"U+0509", <<"U+0508">>>>, <<"U+050B", <<"U+050A">>>>, <<"U+050D", <<"U+050C">>>>, <<"U+050F", <<"U+050E">>>>,
    <<"U+0511", <<"U+0510">>>>, <<"U+0513", <<"U+0512">>>>, <<"U+0515", <<"U+0514">>>>, <<"U+0517", <<"U+0516">>>>,
    <<"U+0519", <<"U+0518">>>>, <<"U+051B", <<"U+051A">>>>, <<"U+051D", <<"U+051C">>>>, <<"U+051F", <<"U+051E">>>>,
    <<"U+0521", <<"U+0520">>>>, <<"U+0523", <<"U+0522">>>>, <<"U+0525", <<"U+0524">>>>, <<"U+0527", <<"U+0526">>>>,
    <<"U+0529", <<"U+0528">>>>, <<"U+052B", <<"U+052A">>>>, <<"U+052D", <<"U+052C">>>>, <<"U+052F", <<"U+052E">>>>,
    <<"U+0561", <<"U+0531">>>>, <<"U+0562", <<"U+0532">>>>, <<"U+0563", <<"U+0533">>>>, <<"U+0564", <<"U+0534">>>>,
    <<"U+0565", <<"U+0535">>>>, <<"U+0566", <<"U+0536">>>>, <<"U+0567", <<"U+0537">>>>, <<"U+0568", <<"U+0538">>>>,
    <<"U+0569", <<"U+0539">>>>, <<"U+056A", <<"U+053A">>>>, <<"U+056B", <<"U+053B">>>>, <<"U+056C", <<"U+053C">>>>,
    <<"U+056D", <<"U+053D">>>>, <<"U+056E", <<"U+053E">>>>, <<"U+056F", <<"U+053F">>>>, <<"U+0570", <<"U+0540">>>>,
    <<"U+0571", <<"U+0541">>>>, <<"U+0572", <<"U+0542">>>>, <<"U+0573", <<"U+0543">>>>, <<"U+0574", <<"U+0544">>>>,
    <<"U+0575", <<"U+0545">>>>, <<"U+0576", <<"U+0546">>>>, <<"U+0577", <<"U+0547">>>>, <<"U+0578", <<"U+0548">>>>,
    <<"U+0579", <<"U+0549">>>>, <<"U+057A", <<"U+054A">>>>, <<"U+057B", <<"U+054B">>>>, <<"U+057C", <<"U+054C">>>>,
    <<"U+057D", <<"U+054D">>>>, <<"U+057E", <<"U+054E">>>>, <<"U+057F", <<"U+054F">>>>, <<"ր", <<"U+0550">>>>,
    <<"ց", <<"U+0551">>>>, <<"ւ", <<"U+0552">>>>, <<"փ", <<"U+0553">>>>, <<"ք", <<"U+0554">>>>,
    <<"օ", <<"U+0555">>>>, <<"ֆ", <<"U+0556">>>>, <<"և", <<"U+0535","U+0552">>>>, <<"ა", <<"Ა">>>>,
    <<"ბ", <<"Ბ">>>>, <<"გ", <<"Გ">>>>, <<"დ", <<"Დ">>>>, <<"ე", <<"Ე">>>>,
    <<"ვ", <<"Ვ">>>>, <<"ზ", <<"Ზ">>>>, <<"თ", <<"Თ">>>>, <<"ი", <<"Ი">>>>,
    <<"კ", <<"Კ">>>>, <<"ლ", <<"Ლ">>>>, <<"მ", <<"Მ">>>>, <<"ნ", <<"Ნ">>>>,
    <<"ო", <<"Ო">>>>, <<"პ", <<"Პ">>>>, <<"ჟ", <<"Ჟ">>>>, <<"რ", <<"Რ">>>>,
    <<"ს", <<"Ს">>>>, <<"ტ", <<"Ტ">>>>, <<"უ", <<"Უ">>>>, <<"ფ", <<"Ფ">>>>,
    <<"ქ", <<"Ქ">>>>, <<"ღ", <<"Ღ">>>>, <<"ყ", <<"Ყ">>>>, <<"შ", <<"Შ">>>>,
    <<"ჩ", <<"Ჩ">>>>, <<"ც", <<"Ც">>>>, <<"ძ", <<"Ძ">>>>, <<"წ", <<"Წ">>>>,
    <<"ჭ", <<"Ჭ">>>>, <<"ხ", <<"Ხ">>>>, <<"ჯ", <<"Ჯ">>>>, <<"ჰ", <<"Ჰ">>>>,
    <<"ჱ", <<"Ჱ">>>>, <<"ჲ", <<"Ჲ">>>>, <<"ჳ", <<"Ჳ">>>>, <<"ჴ", <<"Ჴ">>>>,
    <<"ჵ", <<"Ჵ">>>>, <<"ჶ", <<"Ჶ">>>>, <<"ჷ", <<"Ჷ">>>>, <<"ჸ", <<"Ჸ">>>>,
    <<"ჹ", <<"Ჹ">>>>, <<"ჺ", <<"Ჺ">>>>, <<"ჽ", <<"Ჽ">>>>, <<"ჾ", <<"Ჾ">>>>,
    <<"ჿ", <<"Ჿ">>>>, <<"ᏸ", <<"Ᏸ">>>>, <<"ᏹ", <<"Ᏹ">>>>, <<"ᏺ", <<"Ᏺ">>>>,
    <<"ᏻ", <<"Ᏻ">>>>, <<"ᏼ", <<"Ᏼ">>>>, <<"ᏽ", <<"Ᏽ">>>>, <<"ᲀ", <<"U+0412">>>>,
    <<"ᲁ", <<"U+0414">>>>, <<"ᲂ", <<"U+041E">>>>, <<"ᲃ", <<"U+0421">>>>, <<"ᲄ", <<"U+0422">>>>,
    <<"ᲅ", <<"U+0422">>>>, <<"ᲆ", <<"U+042A">>>>, <<"ᲇ", <<"U+0462">>>>, <<"ᲈ", <<"U+A64A">>>>,
    <<"U+1D79", <<"U+A77D">>>>, <<"U+1D7D", <<"U+2C63">>>>, <<"ᶎ", <<"Ᶎ">>>>, <<"U+1E01", <<"U+1E00">>>>,
    <<"U+1E03", <<"U+1E02">>>>, <<"U+1E05", <<"U+1E04">>>>, <<"U+1E07", <<"U+1E06">>>>, <<"U+1E09", <<"U+1E08">>>>,
    <<"U+1E0B", <<"U+1E0A">>>>, <<"U+1E0D", <<"U+1E0C">>>>, <<"U+1E0F", <<"U+1E0E">>>>, <<"U+1E11", <<"U+1E10">>>>,
    <<"U+1E13", <<"U+1E12">>>>, <<"U+1E15", <<"U+1E14">>>>, <<"U+1E17", <<"U+1E16">>>>, <<"U+1E19", <<"U+1E18">>>>,
    <<"U+1E1B", <<"U+1E1A">>>>, <<"U+1E1D", <<"U+1E1C">>>>, <<"U+1E1F", <<"U+1E1E">>>>, <<"U+1E21", <<"U+1E20">>>>,
    <<"U+1E23", <<"U+1E22">>>>, <<"U+1E25", <<"U+1E24">>>>, <<"U+1E27", <<"U+1E26">>>>, <<"U+1E29", <<"U+1E28">>>>,
    <<"U+1E2B", <<"U+1E2A">>>>, <<"U+1E2D", <<"U+1E2C">>>>, <<"U+1E2F", <<"U+1E2E">>>>, <<"U+1E31", <<"U+1E30">>>>,
    <<"U+1E33", <<"U+1E32">>>>, <<"U+1E35", <<"U+1E34">>>>, <<"U+1E37", <<"U+1E36">>>>, <<"U+1E39", <<"U+1E38">>>>,
    <<"U+1E3B", <<"U+1E3A">>>>, <<"U+1E3D", <<"U+1E3C">>>>, <<"U+1E3F", <<"U+1E3E">>>>, <<"U+1E41", <<"U+1E40">>>>,
    <<"U+1E43", <<"U+1E42">>>>, <<"U+1E45", <<"U+1E44">>>>, <<"U+1E47", <<"U+1E46">>>>, <<"U+1E49", <<"U+1E48">>>>,
    <<"U+1E4B", <<"U+1E4A">>>>, <<"U+1E4D", <<"U+1E4C">>>>, <<"U+1E4F", <<"U+1E4E">>>>, <<"U+1E51", <<"U+1E50">>>>,
    <<"U+1E53", <<"U+1E52">>>>, <<"U+1E55", <<"U+1E54">>>>, <<"U+1E57", <<"U+1E56">>>>, <<"U+1E59", <<"U+1E58">>>>,
    <<"U+1E5B", <<"U+1E5A">>>>, <<"U+1E5D", <<"U+1E5C">>>>, <<"U+1E5F", <<"U+1E5E">>>>, <<"U+1E61", <<"U+1E60">>>>,
    <<"U+1E63", <<"U+1E62">>>>, <<"U+1E65", <<"U+1E64">>>>, <<"U+1E67", <<"U+1E66">>>>, <<"U+1E69", <<"U+1E68">>>>,
    <<"U+1E6B", <<"U+1E6A">>>>, <<"U+1E6D", <<"U+1E6C">>>>, <<"U+1E6F", <<"U+1E6E">>>>, <<"U+1E71", <<"U+1E70">>>>,
    <<"U+1E73", <<"U+1E72">>>>, <<"U+1E75", <<"U+1E74">>>>, <<"U+1E77", <<"U+1E76">>>>, <<"U+1E79", <<"U+1E78">>>>,
    <<"U+1E7B", <<"U+1E7A">>>>, <<"U+1E7D", <<"U+1E7C">>>>, <<"U+1E7F", <<"U+1E7E">>>>, <<"ẁ", <<"Ẁ">>>>,
    <<"ẃ", <<"Ẃ">>>>, <<"ẅ", <<"Ẅ">>>>, <<"ẇ", <<"Ẇ">>>>, <<"ẉ", <<"Ẉ">>>>,
    <<"ẋ", <<"Ẋ">>>>, <<"ẍ", <<"Ẍ">>>>, <<"ẏ", <<"Ẏ">>>>, <<"ẑ", <<"Ẑ">>>>,
    <<"ẓ", <<"Ẓ">>>>, <<"ẕ", <<"Ẕ">>>>, <<"ẖ", <<"H","U+0331">>>>, <<"ẗ", <<"T","U+0308">>>>,
    <<"ẘ", <<"W","U+030A">>>>, <<"ẙ", <<"Y","U+030A">>>>, <<"ẚ", <<"A","ʾ">>>>, <<"ẛ", <<"U+1E60">>>>,
    <<"ạ", <<"Ạ">>>>, <<"ả", <<"Ả">>>>, <<"ấ", <<"Ấ">>>>, <<"ầ", <<"Ầ">>>>,
    <<"ẩ", <<"Ẩ">>>>, <<"ẫ", <<"Ẫ">>>>, <<"ậ", <<"Ậ">>>>, <<"ắ", <<"Ắ">>>>,
    <<"ằ", <<"Ằ">>>>, <<"ẳ", <<"Ẳ">>>>, <<"ẵ", <<"Ẵ">>>>, <<"ặ", <<"Ặ">>>>,
    <<"ẹ", <<"Ẹ">>>>, <<"ẻ", <<"Ẻ">>>>, <<"ẽ", <<"Ẽ">>>>, <<"ế", <<"Ế">>>>,
    <<"ề", <<"Ề">>>>, <<"ể", <<"Ể">>>>, <<"ễ", <<"Ễ">>>>, <<"ệ", <<"Ệ">>>>,
    <<"ỉ", <<"Ỉ">>>>, <<"ị", <<"Ị">>>>, <<"ọ", <<"Ọ">>>>, <<"ỏ", <<"Ỏ">>>>,
    <<"ố", <<"Ố">>>>, <<"ồ", <<"Ồ">>>>, <<"ổ", <<"Ổ">>>>, <<"ỗ", <<"Ỗ">>>>,
    <<"ộ", <<"Ộ">>>>, <<"ớ", <<"Ớ">>>>, <<"ờ", <<"Ờ">>>>, <<"ở", <<"Ở">>>>,
    <<"ỡ", <<"Ỡ">>>>, <<"ợ", <<"Ợ">>>>, <<"ụ", <<"Ụ">>>>, <<"ủ", <<"Ủ">>>>,
    <<"ứ", <<"Ứ">>>>, <<"ừ", <<"Ừ">>>>, <<"ử", <<"Ử">>>>, <<"ữ", <<"Ữ">>>>,
    <<"ự", <<"Ự">>>>, <<"ỳ", <<"Ỳ">>>>, <<"ỵ", <<"Ỵ">>>>, <<"ỷ", <<"Ỷ">>>>,
    <<"ỹ", <<"Ỹ">>>>, <<"ỻ", <<"Ỻ">>>>, <<"ỽ", <<"Ỽ">>>>, <<"ỿ", <<"Ỿ">>>>,
    <<"U+1F00", <<"U+1F08">>>>, <<"U+1F01", <<"U+1F09">>>>, <<"U+1F02", <<"U+1F0A">>>>, <<"U+1F03", <<"U+1F0B">>>>,
    <<"U+1F04", <<"U+1F0C">>>>, <<"U+1F05", <<"U+1F0D">>>>, <<"U+1F06", <<"U+1F0E">>>>, <<"U+1F07", <<"U+1F0F">>>>,
    <<"U+1F10", <<"U+1F18">>>>, <<"U+1F11", <<"U+1F19">>>>, <<"U+1F12", <<"U+1F1A">>>>, <<"U+1F13", <<"U+1F1B">>>>,
    <<"U+1F14", <<"U+1F1C">>>>, <<"U+1F15", <<"U+1F1D">>>>, <<"U+1F20", <<"U+1F28">>>>, <<"U+1F21", <<"U+1F29">>>>,
    <<"U+1F22", <<"U+1F2A">>>>, <<"U+1F23", <<"U+1F2B">>>>, <<"U+1F24", <<"U+1F2C">>>>, <<"U+1F25", <<"U+1F2D">>>>,
    <<"U+1F26", <<"U+1F2E">>>>, <<"U+1F27", <<"U+1F2F">>>>, <<"U+1F30", <<"U+1F38">>>>, <<"U+1F31", <<"U+1F39">>>>,
    <<"U+1F32", <<"U+1F3A">>>>, <<"U+1F33", <<"U+1F3B">>>>, <<"U+1F34", <<"U+1F3C">>>>, <<"U+1F35", <<"U+1F3D">>>>,
    <<"U+1F36", <<"U+1F3E">>>>, <<"U+1F37", <<"U+1F3F">>>>, <<"U+1F40", <<"U+1F48">>>>, <<"U+1F41", <<"U+1F49">>>>,
    <<"U+1F42", <<"U+1F4A">>>>, <<"U+1F43", <<"U+1F4B">>>>, <<"U+1F44", <<"U+1F4C">>>>, <<"U+1F45", <<"U+1F4D">>>>,
    <<"U+1F50", <<"Υ","U+0313">>>>, <<"U+1F51", <<"U+1F59">>>>, <<"U+1F52", <<"Υ","U+0313","U+0300">>>>, <<"U+1F53", <<"U+1F5B">>>>,
    <<"U+1F54", <<"Υ","U+0313","U+0301">>>>, <<"U+1F55", <<"U+1F5D">>>>, <<"U+1F56", <<"Υ","U+0313","U+0342">>>>, <<"U+1F57", <<"U+1F5F">>>>,
    <<"U+1F60", <<"U+1F68">>>>, <<"U+1F61", <<"U+1F69">>>>, <<"U+1F62", <<"U+1F6A">>>>, <<"U+1F63", <<"U+1F6B">>>>,
    <<"U+1F64", <<"U+1F6C">>>>, <<"U+1F65", <<"U+1F6D">>>>, <<"U+1F66", <<"U+1F6E">>>>, <<"U+1F67", <<"U+1F6F">>>>,
    <<"U+1F70", <<"Ὰ">>>>, <<"U+1F71", <<"Ά">>>>, <<"U+1F72", <<"Ὲ">>>>, <<"U+1F73", <<"Έ">>>>,
    <<"U+1F74", <<"Ὴ">>>>, <<"U+1F75", <<"Ή">>>>, <<"U+1F76", <<"Ὶ">>>>, <<"U+1F77", <<"Ί">>>>,
    <<"U+1F78", <<"Ὸ">>>>, <<"U+1F79", <<"Ό">>>>, <<"U+1F7A", <<"Ὺ">>>>, <<"U+1F7B", <<"Ύ">>>>,
    <<"U+1F7C", <<"Ὼ">>>>, <<"U+1F7D", <<"Ώ">>>>, <<"ᾀ", <<"U+1F08","Ι">>>>, <<"ᾁ", <<"U+1F09","Ι">>>>,
    <<"ᾂ", <<"U+1F0A","Ι">>>>, <<"ᾃ", <<"U+1F0B","Ι">>>>, <<"ᾄ", <<"U+1F0C","Ι">>>>, <<"ᾅ", <<"U+1F0D","Ι">>>>,
    <<"ᾆ", <<"U+1F0E","Ι">>>>, <<"ᾇ", <<"U+1F0F","Ι">>>>, <<"ᾈ", <<"U+1F08","Ι">>>>, <<"ᾉ", <<"U+1F09","Ι">>>>,
    <<"ᾊ", <<"U+1F0A","Ι">>>>, <<"ᾋ", <<"U+1F0B","Ι">>>>, <<"ᾌ", <<"U+1F0C","Ι">>>>, <<"ᾍ", <<"U+1F0D","Ι">>>>,
    <<"ᾎ", <<"U+1F0E","Ι">>>>, <<"ᾏ", <<"U+1F0F","Ι">>>>, <<"ᾐ", <<"U+1F28","Ι">>>>, <<"ᾑ", <<"U+1F29","Ι">>>>,
    <<"ᾒ", <<"U+1F2A","Ι">>>>, <<"ᾓ", <<"U+1F2B","Ι">>>>, <<"ᾔ", <<"U+1F2C","Ι">>>>, <<"ᾕ", <<"U+1F2D","Ι">>>>,
    <<"ᾖ", <<"U+1F2E","Ι">>>>, <<"ᾗ", <<"U+1F2F","Ι">>>>, <<"ᾘ", <<"U+1F28","Ι">>>>, <<"ᾙ", <<"U+1F29","Ι">>>>,
    <<"ᾚ", <<"U+1F2A","Ι">>>>, <<"ᾛ", <<"U+1F2B","Ι">>>>, <<"ᾜ", <<"U+1F2C","Ι">>>>, <<"ᾝ", <<"U+1F2D","Ι">>>>,
    <<"ᾞ", <<"U+1F2E","Ι">>>>, <<"ᾟ", <<"U+1F2F","Ι">>>>, <<"ᾠ", <<"U+1F68","Ι">>>>, <<"ᾡ", <<"U+1F69","Ι">>>>,
    <<"ᾢ", <<"U+1F6A","Ι">>>>, <<"ᾣ", <<"U+1F6B","Ι">>>>, <<"ᾤ", <<"U+1F6C","Ι">>>>, <<"ᾥ", <<"U+1F6D","Ι">>>>,
    <<"ᾦ", <<"U+1F6E","Ι">>>>, <<"ᾧ", <<"U+1F6F","Ι">>>>, <<"ᾨ", <<"U+1F68","Ι">>>>, <<"ᾩ", <<"U+1F69","Ι">>>>,
    <<"ᾪ", <<"U+1F6A","Ι">>>>, <<"ᾫ", <<"U+1F6B","Ι">>>>, <<"ᾬ", <<"U+1F6C","Ι">>>>, <<"ᾭ", <<"U+1F6D","Ι">>>>,
    <<"ᾮ", <<"U+1F6E","Ι">>>>, <<"ᾯ", <<"U+1F6F","Ι">>>>, <<"ᾰ", <<"Ᾰ">>>>, <<"ᾱ", <<"Ᾱ">>>>,
    <<"ᾲ", <<"Ὰ","Ι">>>>, <<"ᾳ", <<"Α","Ι">>>>, <<"ᾴ", <<"Ά","Ι">>>>, <<"ᾶ", <<"Α","U+0342">>>>,
    <<"ᾷ", <<"Α","U+0342","Ι">>>>, <<"ᾼ", <<"Α","Ι">>>>, <<"ι", <<"Ι">>>>, <<"ῂ", <<"Ὴ","Ι">>>>,
    <<"ῃ", <<"Η","Ι">>>>, <<"ῄ", <<"Ή","Ι">>>>, <<"ῆ", <<"Η","U+0342">>>>, <<"ῇ", <<"Η","U+0342","Ι">>>>,
    <<"ῌ", <<"Η","Ι">>>>, <<"ῐ", <<"Ῐ">>>>, <<"ῑ", <<"Ῑ">>>>, <<"ῒ", <<"Ι","U+0308","U+0300">>>>,
    <<"ΐ", <<"Ι","U+0308","U+0301">>>>, <<"ῖ", <<"Ι","U+0342">>>>, <<"ῗ", <<"Ι","U+0308","U+0342">>>>, <<"ῠ", <<"Ῠ">>>>,
    <<"ῡ", <<"Ῡ">>>>, <<"ῢ", <<"Υ","U+0308","U+0300">>>>, <<"ΰ", <<"Υ","U+0308","U+0301">>>>, <<"ῤ", <<"Ρ","U+0313">>>>,
    <<"ῥ", <<"Ῥ">>>>, <<"ῦ", <<"Υ","U+0342">>>>, <<"ῧ", <<"Υ","U+0308","U+0342">>>>, <<"ῲ", <<"Ὼ","Ι">>>>,
    <<"ῳ", <<"Ω","Ι">>>>, <<"ῴ", <<"Ώ","Ι">>>>, <<"ῶ", <<"Ω","U+0342">>>>, <<"ῷ", <<"Ω","U+0342","Ι">>>>,
    <<"ῼ", <<"Ω","Ι">>>>, <<"U+214E", <<"U+2132">>>>, <<"U+2170", <<"U+2160">>>>, <<"U+2171", <<"U+2161">>>>,
    <<"U+2172", <<"U+2162">>>>, <<"U+2173", <<"U+2163">>>>, <<"U+2174", <<"U+2164">>>>, <<"U+2175", <<"U+2165">>>>,
    <<"U+2176", <<"U+2166">>>>, <<"U+2177", <<"U+2167">>>>, <<"U+2178", <<"U+2168">>>>, <<"U+2179", <<"U+2169">>>>,
    <<"U+217A", <<"U+216A">>>>, <<"U+217B", <<"U+216B">>>>, <<"U+217C", <<"U+216C">>>>, <<"U+217D", <<"U+216D">>>>,
    <<"U+217E", <<"U+216E">>>>, <<"U+217F", <<"U+216F">>>>, <<"ↄ", <<"Ↄ">>>>, <<"ⓐ", <<"Ⓐ">>>>,
    <<"ⓑ", <<"Ⓑ">>>>, <<"ⓒ", <<"Ⓒ">>>>, <<"ⓓ", <<"Ⓓ">>>>, <<"ⓔ", <<"Ⓔ">>>>,
    <<"ⓕ", <<"Ⓕ">>>>, <<"ⓖ", <<"Ⓖ">>>>, <<"ⓗ", <<"Ⓗ">>>>, <<"ⓘ", <<"Ⓘ">>>>,
    <<"ⓙ", <<"Ⓙ">>>>, <<"ⓚ", <<"Ⓚ">>>>, <<"ⓛ", <<"Ⓛ">>>>, <<"ⓜ", <<"Ⓜ">>>>,
    <<"ⓝ", <<"Ⓝ">>>>, <<"ⓞ", <<"Ⓞ">>>>, <<"ⓟ", <<"Ⓟ">>>>, <<"ⓠ", <<"Ⓠ">>>>,
    <<"ⓡ", <<"Ⓡ">>>>, <<"ⓢ", <<"Ⓢ">>>>, <<"ⓣ", <<"Ⓣ">>>>, <<"ⓤ", <<"Ⓤ">>>>,
    <<"ⓥ", <<"Ⓥ">>>>, <<"ⓦ", <<"Ⓦ">>>>, <<"ⓧ", <<"Ⓧ">>>>, <<"ⓨ", <<"Ⓨ">>>>,
    <<"ⓩ", <<"Ⓩ">>>>, <<"U+2C30", <<"U+2C00">>>>, <<"U+2C31", <<"U+2C01">>>>, <<"U+2C32", <<"U+2C02">>>>,
    <<"U+2C33", <<"U+2C03">>>>, <<"U+2C34", <<"U+2C04">>>>, <<"U+2C35", <<"U+2C05">>>>, <<"U+2C36", <<"U+2C06">>>>,
    <<"U+2C37", <<"U+2C07">>>>, <<"U+2C38", <<"U+2C08">>>>, <<"U+2C39", <<"U+2C09">>>>, <<"U+2C3A", <<"U+2C0A">>>>,
    <<"U+2C3B", <<"U+2C0B">>>>, <<"U+2C3C", <<"U+2C0C">>>>, <<"U+2C3D", <<"U+2C0D">>>>, <<"U+2C3E", <<"U+2C0E">>>>,
    <<"U+2C3F", <<"U+2C0F">>>>, <<"U+2C40", <<"U+2C10">>>>, <<"U+2C41", <<"U+2C11">>>>, <<"U+2C42", <<"U+2C12">>>>,
    <<"U+2C43", <<"U+2C13">>>>, <<"U+2C44", <<"U+2C14">>>>, <<"U+2C45", <<"U+2C15">>>>, <<"U+2C46", <<"U+2C16">>>>,
    <<"U+2C47", <<"U+2C17">>>>, <<"U+2C48", <<"U+2C18">>>>, <<"U+2C49", <<"U+2C19">>>>, <<"U+2C4A", <<"U+2C1A">>>>,
    <<"U+2C4B", <<"U+2C1B">>>>, <<"U+2C4C", <<"U+2C1C">>>>, <<"U+2C4D", <<"U+2C1D">>>>, <<"U+2C4E", <<"U+2C1E">>>>,
    <<"U+2C4F", <<"U+2C1F">>>>, <<"U+2C50", <<"U+2C20">>>>, <<"U+2C51", <<"U+2C21">>>>, <<"U+2C52", <<"U+2C22">>>>,
    <<"U+2C53", <<"U+2C23">>>>, <<"U+2C54", <<"U+2C24">>>>, <<"U+2C55", <<"U+2C25">>>>, <<"U+2C56", <<"U+2C26">>>>,
    <<"U+2C57", <<"U+2C27">>>>, <<"U+2C58", <<"U+2C28">>>>, <<"U+2C59", <<"U+2C29">>>>, <<"U+2C5A", <<"U+2C2A">>>>,
    <<"U+2C5B", <<"U+2C2B">>>>, <<"U+2C5C", <<"U+2C2C">>>>, <<"U+2C5D", <<"U+2C2D">>>>, <<"U+2C5E", <<"U+2C2E">>>>,
    <<"U+2C5F", <<"U+2C2F">>>>, <<"U+2C61", <<"U+2C60">>>>, <<"U+2C65", <<"U+023A">>>>, <<"U+2C66", <<"U+023E">>>>,
    <<"U+2C68", <<"U+2C67">>>>, <<"U+2C6A", <<"U+2C69">>>>, <<"U+2C6C", <<"U+2C6B">>>>, <<"U+2C73", <<"U+2C72">>>>,
    <<"U+2C76", <<"U+2C75">>>>, <<"ⲁ", <<"Ⲁ">>>>, <<"ⲃ", <<"Ⲃ">>>>, <<"ⲅ", <<"Ⲅ">>>>,
    <<"ⲇ", <<"Ⲇ">>>>, <<"ⲉ", <<"Ⲉ">>>>, <<"ⲋ", <<"Ⲋ">>>>, <<"ⲍ", <<"Ⲍ">>>>,
    <<"ⲏ", <<"Ⲏ">>>>, <<"ⲑ", <<"Ⲑ">>>>, <<"ⲓ", <<"Ⲓ">>>>, <<"ⲕ", <<"Ⲕ">>>>,
    <<"ⲗ", <<"Ⲗ">>>>, <<"ⲙ", <<"Ⲙ">>>>, <<"ⲛ", <<"Ⲛ">>>>, <<"ⲝ", <<"Ⲝ">>>>,
    <<"ⲟ", <<"Ⲟ">>>>, <<"ⲡ", <<"Ⲡ">>>>, <<"ⲣ", <<"Ⲣ">>>>, <<"ⲥ", <<"Ⲥ">>>>,
    <<"ⲧ", <<"Ⲧ">>>>, <<"ⲩ", <<"Ⲩ">>>>, <<"ⲫ", <<"Ⲫ">>>>, <<"ⲭ", <<"Ⲭ">>>>,
    <<"ⲯ", <<"Ⲯ">>>>, <<"ⲱ", <<"Ⲱ">>>>, <<"ⲳ", <<"Ⲳ">>>>, <<"ⲵ", <<"Ⲵ">>>>,
    <<"ⲷ", <<"Ⲷ">>>>, <<"ⲹ", <<"Ⲹ">>>>, <<"ⲻ", <<"Ⲻ">>>>, <<"ⲽ", <<"Ⲽ">>>>,
    <<"ⲿ", <<"Ⲿ">>>>, <<"ⳁ", <<"Ⳁ">>>>, <<"ⳃ", <<"Ⳃ">>>>, <<"ⳅ", <<"Ⳅ">>>>,
    <<"ⳇ", <<"Ⳇ">>>>, <<"ⳉ", <<"Ⳉ">>>>, <<"ⳋ", <<"Ⳋ">>>>, <<"ⳍ", <<"Ⳍ">>>>,
    <<"ⳏ", <<"Ⳏ">>>>, <<"ⳑ", <<"Ⳑ">>>>, <<"ⳓ", <<"Ⳓ">>>>, <<"ⳕ", <<"Ⳕ">>>>,
    <<"ⳗ", <<"Ⳗ">>>>, <<"ⳙ", <<"Ⳙ">>>>, <<"ⳛ", <<"Ⳛ">>>>, <<"ⳝ", <<"Ⳝ">>>>,
    <<"ⳟ", <<"Ⳟ">>>>, <<"ⳡ", <<"Ⳡ">>>>, <<"ⳣ", <<"Ⳣ">>>>, <<"ⳬ", <<"Ⳬ">>>>,
    <<"ⳮ", <<"Ⳮ">>>>, <<"ⳳ", <<"Ⳳ">>>>, <<"U+2D00", <<"Ⴀ">>>>, <<"U+2D01", <<"Ⴁ">>>>,
    <<"U+2D02", <<"Ⴂ">>>>, <<"U+2D03", <<"Ⴃ">>>>, <<"U+2D04", <<"Ⴄ">>>>, <<"U+2D05", <<"Ⴅ">>>>,
    <<"U+2D06", <<"Ⴆ">>>>, <<"U+2D07", <<"Ⴇ">>>>, <<"U+2D08", <<"Ⴈ">>>>, <<"U+2D09", <<"Ⴉ">>>>,
    <<"U+2D0A", <<"Ⴊ">>>>, <<"U+2D0B", <<"Ⴋ">>>>, <<"U+2D0C", <<"Ⴌ">>>>, <<"U+2D0D", <<"Ⴍ">>>>,
    <<"U+2D0E", <<"Ⴎ">>>>, <<"U+2D0F", <<"Ⴏ">>>>, <<"U+2D10", <<"Ⴐ">>>>, <<"U+2D11", <<"Ⴑ">>>>,
    <<"U+2D12", <<"Ⴒ">>>>, <<"U+2D13", <<"Ⴓ">>>>, <<"U+2D14", <<"Ⴔ">>>>, <<"U+2D15", <<"Ⴕ">>>>,
    <<"U+2D16", <<"Ⴖ">>>>, <<"U+2D17", <<"Ⴗ">>>>, <<"U+2D18", <<"Ⴘ">>>>, <<"U+2D19", <<"Ⴙ">>>>,
    <<"U+2D1A", <<"Ⴚ">>>>, <<"U+2D1B", <<"Ⴛ">>>>, <<"U+2D1C", <<"Ⴜ">>>>, <<"U+2D1D", <<"Ⴝ">>>>,
    <<"U+2D1E", <<"Ⴞ">>>>, <<"U+2D1F", <<"Ⴟ">>>>, <<"U+2D20", <<"Ⴠ">>>>, <<"U+2D21", <<"Ⴡ">>>>,
    <<"U+2D22", <<"Ⴢ">>>>, <<"U+2D23", <<"Ⴣ">>>>, <<"U+2D24", <<"Ⴤ">>>>, <<"U+2D25", <<"Ⴥ">>>>,
    <<"U+2D27", <<"Ⴧ">>>>, <<"U+2D2D", <<"Ⴭ">>>>, <<"U+A641", <<"U+A640">>>>, <<"U+A643", <<"U+A642">>>>,
    <<"U+A645", <<"U+A644">>>>, <<"U+A647", <<"U+A646">>>>, <<"U+A649", <<"U+A648">>>>, <<"U+A64B", <<"U+A64A">>>>,
    <<"U+A64D", <<"U+A64C">>>>, <<"U+A64F", <<"U+A64E">>>>, <<"U+A651", <<"U+A650">>>>, <<"U+A653", <<"U+A652">>>>,
    <<"U+A655", <<"U+A654">>>>, <<"U+A657", <<"U+A656">>>>, <<"U+A659", <<"U+A658">>>>, <<"U+A65B", <<"U+A65A">>>>,
    <<"U+A65D", <<"U+A65C">>>>, <<"U+A65F", <<"U+A65E">>>>, <<"U+A661", <<"U+A660">>>>, <<"U+A663", <<"U+A662">>>>,
    <<"U+A665", <<"U+A664">>>>, <<"U+A667", <<"U+A666">>>>, <<"U+A669", <<"U+A668">>>>, <<"U+A66B", <<"U+A66A">>>>,
    <<"U+A66D", <<"U+A66C">>>>, <<"ꚁ", <<"Ꚁ">>>>, <<"ꚃ", <<"Ꚃ">>>>, <<"ꚅ", <<"Ꚅ">>>>,
    <<"ꚇ", <<"Ꚇ">>>>, <<"ꚉ", <<"Ꚉ">>>>, <<"ꚋ", <<"Ꚋ">>>>, <<"ꚍ", <<"Ꚍ">>>>,
    <<"ꚏ", <<"Ꚏ">>>>, <<"ꚑ", <<"Ꚑ">>>>, <<"ꚓ", <<"Ꚓ">>>>, <<"ꚕ", <<"Ꚕ">>>>,
    <<"ꚗ", <<"Ꚗ">>>>, <<"ꚙ", <<"Ꚙ">>>>, <<"ꚛ", <<"Ꚛ">>>>, <<"U+A723", <<"U+A722">>>>,
    <<"U+A725", <<"U+A724">>>>, <<"U+A727", <<"U+A726">>>>, <<"U+A729", <<"U+A728">>>>, <<"U+A72B", <<"U+A72A">>>>,
    <<"U+A72D", <<"U+A72C">>>>, <<"U+A72F", <<"U+A72E">>>>, <<"U+A733", <<"U+A732">>>>, <<"U+A735", <<"U+A734">>>>,
    <<"U+A737", <<"U+A736">>>>, <<"U+A739", <<"U+A738">>>>, <<"U+A73B", <<"U+A73A">>>>, <<"U+A73D", <<"U+A73C">>>>,
    <<"U+A73F", <<"U+A73E">>>>, <<"U+A741", <<"U+A740">>>>, <<"U+A743", <<"U+A742">>>>, <<"U+A745", <<"U+A744">>>>,
    <<"U+A747", <<"U+A746">>>>, <<"U+A749", <<"U+A748">>>>, <<"U+A74B", <<"U+A74A">>>>, <<"U+A74D", <<"U+A74C">>>>,
    <<"U+A74F", <<"U+A74E">>>>, <<"U+A751", <<"U+A750">>>>, <<"U+A753", <<"U+A752">>>>, <<"U+A755", <<"U+A754">>>>,
    <<"U+A757", <<"U+A756">>>>, <<"U+A759", <<"U+A758">>>>, <<"U+A75B", <<"U+A75A">>>>, <<"U+A75D", <<"U+A75C">>>>,
    <<"U+A75F", <<"U+A75E">>>>, <<"U+A761", <<"U+A760">>>>, <<"U+A763", <<"U+A762">>>>, <<"U+A765", <<"U+A764">>>>,
    <<"U+A767", <<"U+A766">>>>, <<"U+A769", <<"U+A768">>>>, <<"U+A76B", <<"U+A76A">>>>, <<"U+A76D", <<"U+A76C">>>>,
    <<"U+A76F", <<"U+A76E">>>>, <<"U+A77A", <<"U+A779">>>>, <<"U+A77C", <<"U+A77B">>>>, <<"U+A77F", <<"U+A77E">>>>,
    <<"ꞁ", <<"Ꞁ">>>>, <<"ꞃ", <<"Ꞃ">>>>, <<"ꞅ", <<"Ꞅ">>>>, <<"ꞇ", <<"Ꞇ">>>>,
    <<"ꞌ", <<"Ꞌ">>>>, <<"ꞑ", <<"Ꞑ">>>>, <<"ꞓ", <<"Ꞓ">>>>, <<"ꞔ", <<"Ꞔ">>>>,
    <<"ꞗ", <<"Ꞗ">>>>, <<"ꞙ", <<"Ꞙ">>>>, <<"ꞛ", <<"Ꞛ">>>>, <<"ꞝ", <<"Ꞝ">>>>,
    <<"ꞟ", <<"Ꞟ">>>>, <<"ꞡ", <<"Ꞡ">>>>, <<"ꞣ", <<"Ꞣ">>>>, <<"ꞥ", <<"Ꞥ">>>>,
    <<"ꞧ", <<"Ꞧ">>>>, <<"ꞩ", <<"Ꞩ">>>>, <<"ꞵ", <<"Ꞵ">>>>, <<"ꞷ", <<"Ꞷ">>>>,
    <<"ꞹ", <<"Ꞹ">>>>, <<"ꞻ", <<"Ꞻ">>>>, <<"ꞽ", <<"Ꞽ">>>>, <<"ꞿ", <<"Ꞿ">>>>,
    <<"ꟁ", <<"Ꟁ">>>>, <<"ꟃ", <<"Ꟃ">>>>, <<"ꟈ", <<"Ꟈ">>>>, <<"ꟊ", <<"Ꟊ">>>>,
    <<"ꟑ", <<"Ꟑ">>>>, <<"ꟗ", <<"Ꟗ">>>>, <<"ꟙ", <<"Ꟙ">>>>, <<"ꟶ", <<"Ꟶ">>>>,
    <<"U+AB53", <<"Ꭓ">>>>, <<"U+AB70", <<"Ꭰ">>>>, <<"U+AB71", <<"Ꭱ">>>>, <<"U+AB72", <<"Ꭲ">>>>,
    <<"U+AB73", <<"Ꭳ">>>>, <<"U+AB74", <<"Ꭴ">>>>, <<"U+AB75", <<"Ꭵ">>>>, <<"U+AB76", <<"Ꭶ">>>>,
    <<"U+AB77", <<"Ꭷ">>>>, <<"U+AB78", <<"Ꭸ">>>>, <<"U+AB79", <<"Ꭹ">>>>, <<"U+AB7A", <<"Ꭺ">>>>,
    <<"U+AB7B", <<"Ꭻ">>>>, <<"U+AB7C", <<"Ꭼ">>>>, <<"U+AB7D", <<"Ꭽ">>>>, <<"U+AB7E", <<"Ꭾ">>>>,
    <<"U+AB7F", <<"Ꭿ">>>>, <<"ꮀ", <<"Ꮀ">>>>, <<"ꮁ", <<"Ꮁ">>>>, <<"ꮂ", <<"Ꮂ">>>>,
    <<"ꮃ", <<"Ꮃ">>>>, <<"ꮄ", <<"Ꮄ">>>>, <<"ꮅ", <<"Ꮅ">>>>, <<"ꮆ", <<"Ꮆ">>>>,
    <<"ꮇ", <<"Ꮇ">>>>, <<"ꮈ", <<"Ꮈ">>>>, <<"ꮉ", <<"Ꮉ">>>>, <<"ꮊ", <<"Ꮊ">>>>,
    <<"ꮋ", <<"Ꮋ">>>>, <<"ꮌ", <<"Ꮌ">>>>, <<"ꮍ", <<"Ꮍ">>>>, <<"ꮎ", <<"Ꮎ">>>>,
    <<"ꮏ", <<"Ꮏ">>>>, <<"ꮐ", <<"Ꮐ">>>>, <<"ꮑ", <<"Ꮑ">>>>, <<"ꮒ", <<"Ꮒ">>>>,
    <<"ꮓ", <<"Ꮓ">>>>, <<"ꮔ", <<"Ꮔ">>>>, <<"ꮕ", <<"Ꮕ">>>>, <<"ꮖ", <<"Ꮖ">>>>,
    <<"ꮗ", <<"Ꮗ">>>>, <<"ꮘ", <<"Ꮘ">>>>, <<"ꮙ", <<"Ꮙ">>>>, <<"ꮚ", <<"Ꮚ">>>>,
    <<"ꮛ", <<"Ꮛ">>>>, <<"ꮜ", <<"Ꮜ">>>>, <<"ꮝ", <<"Ꮝ">>>>, <<"ꮞ", <<"Ꮞ">>>>,
    <<"ꮟ", <<"Ꮟ">>>>, <<"ꮠ", <<"Ꮠ">>>>, <<"ꮡ", <<"Ꮡ">>>>, <<"ꮢ", <<"Ꮢ">>>>,
    <<"ꮣ", <<"Ꮣ">>>>, <<"ꮤ", <<"Ꮤ">>>>, <<"ꮥ", <<"Ꮥ">>>>, <<"ꮦ", <<"Ꮦ">>>>,
    <<"ꮧ", <<"Ꮧ">>>>, <<"ꮨ", <<"Ꮨ">>>>, <<"ꮩ", <<"Ꮩ">>>>, <<"ꮪ", <<"Ꮪ">>>>,
    <<"ꮫ", <<"Ꮫ">>>>, <<"ꮬ", <<"Ꮬ">>>>, <<"ꮭ", <<"Ꮭ">>>>, <<"ꮮ", <<"Ꮮ">>>>,
    <<"ꮯ", <<"Ꮯ">>>>, <<"ꮰ", <<"Ꮰ">>>>, <<"ꮱ", <<"Ꮱ">>>>, <<"ꮲ", <<"Ꮲ">>>>,
    <<"ꮳ", <<"Ꮳ">>>>, <<"ꮴ", <<"Ꮴ">>>>, <<"ꮵ", <<"Ꮵ">>>>, <<"ꮶ", <<"Ꮶ">>>>,
    <<"ꮷ", <<"Ꮷ">>>>, <<"ꮸ", <<"Ꮸ">>>>, <<"ꮹ", <<"Ꮹ">>>>, <<"ꮺ", <<"Ꮺ">>>>,
    <<"ꮻ", <<"Ꮻ">>>>, <<"ꮼ", <<"Ꮼ">>>>, <<"ꮽ", <<"Ꮽ">>>>, <<"ꮾ", <<"Ꮾ">>>>,
    <<"ꮿ", <<"Ꮿ">>>>, <<"U+FB00", <<"F","F">>>>, <<"U+FB01", <<"F","I">>>>, <<"U+FB02", <<"F","L">>>>,
    <<"U+FB03", <<"F","F","I">>>>, <<"U+FB04", <<"F","F","L">>>>, <<"U+FB05", <<"S","T">>>>, <<"U+FB06", <<"S","T">>>>,
    <<"U+FB13", <<"U+0544","U+0546">>>>, <<"U+FB14", <<"U+0544","U+0535">>>>, <<"U+FB15", <<"U+0544","U+053B">>>>, <<"U+FB16", <<"U+054E","U+0546">>>>,
    <<"U+FB17", <<"U+0544","U+053D">>>>, <<"U+FF41", <<"U+FF21">>>>, <<"U+FF42", <<"U+FF22">>>>, <<"U+FF43", <<"U+FF23">>>>,
    <<"U+FF44", <<"U+FF24">>>>, <<"U+FF45", <<"U+FF25">>>>, <<"U+FF46", <<"U+FF26">>>>, <<"U+FF47", <<"U+FF27">>>>,
    <<"U+FF48", <<"U+FF28">>>>, <<"U+FF49", <<"U+FF29">>>>, <<"U+FF4A", <<"U+FF2A">>>>, <<"U+FF4B", <<"U+FF2B">>>>,
    <<"U+FF4C", <<"U+FF2C">>>>, <<"U+FF4D", <<"U+FF2D">>>>, <<"U+FF4E", <<"U+FF2E">>>>, <<"U+FF4F", <<"U+FF2F">>>>,
    <<"U+FF50", <<"U+FF30">>>>, <<"U+FF51", <<"U+FF31">>>>, <<"U+FF52", <<"U+FF32">>>>, <<"U+FF53", <<"U+FF33">>>>,
    <<"U+FF54", <<"U+FF34">>>>, <<"U+FF55", <<"U+FF35">>>>, <<"U+FF56", <<"U+FF36">>>>, <<"U+FF57", <<"U+FF37">>>>,
    <<"U+FF58", <<"U+FF38">>>>, <<"U+FF59", <<"U+FF39">>>>, <<"U+FF5A", <<"U+FF3A">>>>, <<"U+10428", <<"U+10400">>>>,
    <<"U+10429", <<"U+10401">>>>, <<"U+1042A", <<"U+10402">>>>, <<"U+1042B", <<"U+10403">>>>, <<"U+1042C", <<"U+10404">>>>,
    <<"U+1042D", <<"U+10405">>>>, <<"U+1042E", <<"U+10406">>>>, <<"U+1042F", <<"U+10407">>>>, <<"U+10430", <<"U+10408">>>>,
    <<"U+10431", <<"U+10409">>>>, <<"U+10432", <<"U+1040A">>>>, <<"U+10433", <<"U+1040B">>>>, <<"U+10434", <<"U+1040C">>>>,
    <<"U+10435", <<"U+1040D">>>>, <<"U+10436", <<"U+1040E">>>>, <<"U+10437", <<"U+1040F">>>>, <<"U+10438", <<"U+10410">>>>,
    <<"U+10439", <<"U+10411">>>>, <<"U+1043A", <<"U+10412">>>>, <<"U+1043B", <<"U+10413">>>>, <<"U+1043C", <<"U+10414">>>>,
    <<"U+1043D", <<"U+10415">>>>, <<"U+1043E", <<"U+10416">>>>, <<"U+1043F", <<"U+10417">>>>, <<"U+10440", <<"U+10418">>>>,
    <<"U+10441", <<"U+10419">>>>, <<"U+10442", <<"U+1041A">>>>, <<"U+10443", <<"U+1041B">>>>, <<"U+10444", <<"U+1041C">>>>,
    <<"U+10445", <<"U+1041D">>>>, <<"U+10446", <<"U+1041E">>>>, <<"U+10447", <<"U+1041F">>>>, <<"U+10448", <<"U+10420">>>>,
    <<"U+10449", <<"U+10421">>>>, <<"U+1044A", <<"U+10422">>>>, <<"U+1044B", <<"U+10423">>>>, <<"U+1044C", <<"U+10424">>>>,
    <<"U+1044D", <<"U+10425">>>>, <<"U+1044E", <<"U+10426">>>>, <<"U+1044F", <<"U+10427">>>>, <<"U+104D8", <<"U+104B0">>>>,
    <<"U+104D9", <<"U+104B1">>>>, <<"U+104DA", <<"U+104B2">>>>, <<"U+104DB", <<"U+104B3">>>>, <<"U+104DC", <<"U+104B4">>>>,
    <<"U+104DD", <<"U+104B5">>>>, <<"U+104DE", <<"U+104B6">>>>, <<"U+104DF", <<"U+104B7">>>>, <<"U+104E0", <<"U+104B8">>>>,
    <<"U+104E1", <<"U+104B9">>>>, <<"U+104E2", <<"U+104BA">>>>, <<"U+104E3", <<"U+104BB">>>>, <<"U+104E4", <<"U+104BC">>>>,
    <<"U+104E5", <<"U+104BD">>>>, <<"U+104E6", <<"U+104BE">>>>, <<"U+104E7", <<"U+104BF">>>>, <<"U+104E8", <<"U+104C0">>>>,
    <<"U+104E9", <<"U+104C1">>>>, <<"U+104EA", <<"U+104C2">>>>, <<"U+104EB", <<"U+104C3">>>>, <<"U+104EC", <<"U+104C4">>>>,
    <<"U+104ED", <<"U+104C5">>>>, <<"U+104EE", <<"U+104C6">>>>, <<"U+104EF", <<"U+104C7">>>>, <<"U+104F0", <<"U+104C8">>>>,
    <<"U+104F1", <<"U+104C9">>>>, <<"U+104F2", <<"U+104CA">>>>, <<"U+104F3", <<"U+104CB">>>>, <<"U+104F4", <<"U+104CC">>>>,
    <<"U+104F5", <<"U+104CD">>>>, <<"U+104F6", <<"U+104CE">>>>, <<"U+104F7", <<"U+104CF">>>>, <<"U+104F8", <<"U+104D0">>>>,
    <<"U+104F9", <<"U+104D1">>>>, <<"U+104FA", <<"U+104D2">>>>, <<"U+104FB", <<"U+104D3">>>>, <<"U+10597", <<"U+10570">>>>,
    <<"U+10598", <<"U+10571">>>>, <<"U+10599", <<"U+10572">>>>, <<"U+1059A", <<"U+10573">>>>, <<"U+1059B", <<"U+10574">>>>,
    <<"U+1059C", <<"U+10575">>>>, <<"U+1059D", <<"U+10576">>>>, <<"U+1059E", <<"U+10577">>>>, <<"U+1059F", <<"U+10578">>>>,
    <<"U+105A0", <<"U+10579">>>>, <<"U+105A1", <<"U+1057A">>>>, <<"U+105A3", <<"U+1057C">>>>, <<"U+105A4", <<"U+1057D">>>>,
    <<"U+105A5", <<"U+1057E">>>>, <<"U+105A6", <<"U+1057F">>>>, <<"U+105A7", <<"U+10580">>>>, <<"U+105A8", <<"U+10581">>>>,
    <<"U+105A9", <<"U+10582">>>>, <<"U+105AA", <<"U+10583">>>>, <<"U+105AB", <<"U+10584">>>>, <<"U+105AC", <<"U+10585">>>>,
    <<"U+105AD", <<"U+10586">>>>, <<"U+105AE", <<"U+10587">>>>, <<"U+105AF", <<"U+10588">>>>, <<"U+105B0", <<"U+10589">>>>,
    <<"U+105B1", <<"U+1058A">>>>, <<"U+105B3", <<"U+1058C">>>>, <<"U+105B4", <<"U+1058D">>>>, <<"U+105B5", <<"U+1058E">>>>,
    <<"U+105B6", <<"U+1058F">>>>, <<"U+105B7", <<"U+10590">>>>, <<"U+105B8", <<"U+10591">>>>, <<"U+105B9", <<"U+10592">>>>,
    <<"U+105BB", <<"U+10594">>>>, <<"U+105BC", <<"U+10595">>>>, <<"U+10CC0", <<"U+10C80">>>>, <<"U+10CC1", <<"U+10C81">>>>,
    <<"U+10CC2", <<"U+10C82">>>>, <<"U+10CC3", <<"U+10C83">>>>, <<"U+10CC4", <<"U+10C84">>>>, <<"U+10CC5", <<"U+10C85">>>>,
    <<"U+10CC6", <<"U+10C86">>>>, <<"U+10CC7", <<"U+10C87">>>>, <<"U+10CC8", <<"U+10C88">>>>, <<"U+10CC9", <<"U+10C89">>>>,
    <<"U+10CCA", <<"U+10C8A">>>>, <<"U+10CCB", <<"U+10C8B">>>>, <<"U+10CCC", <<"U+10C8C">>>>, <<"U+10CCD", <<"U+10C8D">>>>,
    <<"U+10CCE", <<"U+10C8E">>>>, <<"U+10CCF", <<"U+10C8F">>>>, <<"U+10CD0", <<"U+10C90">>>>, <<"U+10CD1", <<"U+10C91">>>>,
    <<"U+10CD2", <<"U+10C92">>>>, <<"U+10CD3", <<"U+10C93">>>>, <<"U+10CD4", <<"U+10C94">>>>, <<"U+10CD5", <<"U+10C95">>>>,
    <<"U+10CD6", <<"U+10C96">>>>, <<"U+10CD7", <<"U+10C97">>>>, <<"U+10CD8", <<"U+10C98">>>>, <<"U+10CD9", <<"U+10C99">>>>,
    <<"U+10CDA", <<"U+10C9A">>>>, <<"U+10CDB", <<"U+10C9B">>>>, <<"U+10CDC", <<"U+10C9C">>>>, <<"U+10CDD", <<"U+10C9D">>>>,
    <<"U+10CDE", <<"U+10C9E">>>>, <<"U+10CDF", <<"U+10C9F">>>>, <<"U+10CE0", <<"U+10CA0">>>>, <<"U+10CE1", <<"U+10CA1">>>>,
    <<"U+10CE2", <<"U+10CA2">>>>, <<"U+10CE3", <<"U+10CA3">>>>, <<"U+10CE4", <<"U+10CA4">>>>, <<"U+10CE5", <<"U+10CA5">>>>,
    <<"U+10CE6", <<"U+10CA6">>>>, <<"U+10CE7", <<"U+10CA7">>>>, <<"U+10CE8", <<"U+10CA8">>>>, <<"U+10CE9", <<"U+10CA9">>>>,
    <<"U+10CEA", <<"U+10CAA">>>>, <<"U+10CEB", <<"U+10CAB">>>>, <<"U+10CEC", <<"U+10CAC">>>>, <<"U+10CED", <<"U+10CAD">>>>,
    <<"U+10CEE", <<"U+10CAE">>>>, <<"U+10CEF", <<"U+10CAF">>>>, <<"U+10CF0", <<"U+10CB0">>>>, <<"U+10CF1", <<"U+10CB1">>>>,
    <<"U+10CF2", <<"U+10CB2">>>>, <<"U+118C0", <<"U+118A0">>>>, <<"U+118C1", <<"U+118A1">>>>, <<"U+118C2", <<"U+118A2">>>>,
    <<"U+118C3", <<"U+118A3">>>>, <<"U+118C4", <<"U+118A4">>>>, <<"U+118C5", <<"U+118A5">>>>, <<"U+118C6", <<"U+118A6">>>>,
    <<"U+118C7", <<"U+118A7">>>>, <<"U+118C8", <<"U+118A8">>>>, <<"U+118C9", <<"U+118A9">>>>, <<"U+118CA", <<"U+118AA">>>>,
    <<"U+118CB", <<"U+118AB">>>>, <<"U+118CC", <<"U+118AC">>>>, <<"U+118CD", <<"U+118AD">>>>, <<"U+118CE", <<"U+118AE">>>>,
    <<"U+118CF", <<"U+118AF">>>>, <<"U+118D0", <<"U+118B0">>>>, <<"U+118D1", <<"U+118B1">>>>, <<"U+118D2", <<"U+118B2">>>>,
    <<"U+118D3", <<"U+118B3">>>>, <<"U+118D4", <<"U+118B4">>>>, <<"U+118D5", <<"U+118B5">>>>, <<"U+118D6", <<"U+118B6">>>>,
    <<"U+118D7", <<"U+118B7">>>>, <<"U+118D8", <<"U+118B8">>>>, <<"U+118D9", <<"U+118B9">>>>, <<"U+118DA", <<"U+118BA">>>>,
    <<"U+118DB", <<"U+118BB">>>>, <<"U+118DC", <<"U+118BC">>>>, <<"U+118DD", <<"U+118BD">>>>, <<"U+118DE", <<"U+118BE">>>>,
    <<"U+118DF", <<"U+118BF">>>>, <<"U+16E60", <<"U+16E40">>>>, <<"U+16E61", <<"U+16E41">>>>, <<"U+16E62", <<"U+16E42">>>>,
    <<"U+16E63", <<"U+16E43">>>>, <<"U+16E64", <<"U+16E44">>>>, <<"U+16E65", <<"U+16E45">>>>, <<"U+16E66", <<"U+16E46">>>>,
    <<"U+16E67", <<"U+16E47">>>>, <<"U+16E68", <<"U+16E48">>>>, <<"U+16E69", <<"U+16E49">>>>, <<"U+16E6A", <<"U+16E4A">>>>,
    <<"U+16E6B", <<"U+16E4B">>>>, <<"U+16E6C", <<"U+16E4C">>>>, <<"U+16E6D", <<"U+16E4D">>>>, <<"U+16E6E", <<"U+16E4E">>>>,
    <<"U+16E6F", <<"U+16E4F">>>>, <<"U+16E70", <<"U+16E50">>>>, <<"U+16E71", <<"U+16E51">>>>, <<"U+16E72", <<"U+16E52">>>>,
    <<"U+16E73", <<"U+16E53">>>>, <<"U+16E74", <<"U+16E54">>>>, <<"U+16E75", <<"U+16E55">>>>, <<"U+16E76", <<"U+16E56">>>>,
    <<"U+16E77", <<"U+16E57">>>>, <<"U+16E78", <<"U+16E58">>>>, <<"U+16E79", <<"U+16E59">>>>, <<"U+16E7A", <<"U+16E5A">>>>,
    <<"U+16E7B", <<"U+16E5B">>>>, <<"U+16E7C", <<"U+16E5C">>>>, <<"U+16E7D", <<"U+16E5D">>>>, <<"U+16E7E", <<"U+16E5E">>>>,
    <<"U+16E7F", <<"U+16E5F">>>>, <<"U+1E922", <<"U+1E900">>>>, <<"U+1E923", <<"U+1E901">>>>, <<"U+1E924", <<"U+1E902">>>>,
    <<"U+1E925", <<"U+1E903">>>>, <<"U+1E926", <<"U+1E904">>>>, <<"U+1E927", <<"U+1E905">>>>, <<"U+1E928", <<"U+1E906">>>>,
    <<"U+1E929", <<"U+1E907">>>>, <<"U+1E92A", <<"U+1E908">>>>, <<"U+1E92B", <<"U+1E909">>>>, <<"U+1E92C", <<"U+1E90A">>>>,
    <<"U+1E92D", <<"U+1E90B">>>>, <<"U+1E92E", <<"U+1E90C">>>>, <<"U+1E92F", <<"U+1E90D">>>>, <<"U+1E930", <<"U+1E90E">>>>,
    <<"U+1E931", <<"U+1E90F">>>>, <<"U+1E932", <<"U+1E910">>>>, <<"U+1E933", <<"U+1E911">>>>, <<"U+1E934", <<"U+1E912">>>>,
    <<"U+1E935", <<"U+1E913">>>>, <<"U+1E936", <<"U+1E914">>>>, <<"U+1E937", <<"U+1E915">>>>, <<"U+1E938", <<"U+1E916">>>>,
    <<"U+1E939", <<"U+1E917">>>>, <<"U+1E93A", <<"U+1E918">>>>, <<"U+1E93B", <<"U+1E919">>>>, <<"U+1E93C", <<"U+1E91A">>>>,
    <<"U+1E93D", <<"U+1E91B">>>>, <<"U+1E93E", <<"U+1E91C">>>>, <<"U+1E93F", <<"U+1E91D">>>>, <<"U+1E940", <<"U+1E91E">>>>,
    <<"U+1E941", <<"U+1E91F">>>>, <<"U+1E942", <<"U+1E920">>>>, <<"U+1E943", <<"U+1E921">>>> }

UpperChars == {p[1] : p \in UpperPairs}

\* str.upper() of one character
ToUpper(c) ==
    IF c \in Lower
    THEN <<UpperSeq[CHOOSE k \in 1..Len(LowerSeq) : LowerSeq[k] = c]>>
    ELSE IF c \in UpperChars
    THEN (CHOOSE p \in UpperPairs : p[1] = c)[2]
    ELSE <<c>>

\* str.upper()
RECURSIVE StrUpper(_)
StrUpper(s) ==
    IF s = <<>> THEN <<>> ELSE ToUpper(Head(s)) \o StrUpper(Tail(s))
\* -------------------------------------------------- regex building blocks

\* the literal lit matches s at position i (ci: under re.IGNORECASE)
LitAt(s, i, lit, ci) ==
    /\ i >= 1
    /\ i + Len(lit) - 1 <= Len(s)
    /\ \A k \in 1..Len(lit) :
          IF ci THEN ToLower(s[i + k - 1]) = ToLower(lit[k])
                ELSE s[i + k - 1] = lit[k]

\* s has a character of class C at position i
In(s, i, C) == i >= 1 /\ i <= Len(s) /\ s[i] \in C

\* a greedy run  [C]* : the first position from i on that is not in class C
Skip(s, i, C) ==
    IF i > Len(s) THEN i
    ELSE CHOOSE k \in i..(Len(s) + 1) :
            /\ k = Len(s) + 1 \/ s[k] \notin C
            /\ \A j \in i..(k - 1) : s[j] \in C

\* a greedy run  [^C]* : the first position from i on that is in class C
SkipNot(s, i, C) ==
    IF i > Len(s) THEN i
    ELSE CHOOSE k \in i..(Len(s) + 1) :
            /\ k = Len(s) + 1 \/ s[k] \in C
            /\ \A j \in i..(k - 1) : s[j] \notin C

\* str.strip()
Strip(s) ==
    IF \A k \in 1..Len(s) : s[k] \in WS THEN <<>>
    ELSE SubSeq(s, Skip(s, 1, WS),
                CHOOSE b \in 1..Len(s) :
                    s[b] \notin WS /\ \A j \in (b + 1)..Len(s) : s[j] \in WS)

\* ------------------------------------------------------------ the patterns
\* Each XxxEnd(s, i) is 0 when the pattern does not match at position i, and
\* otherwise the position just past the match Python's engine finds there.

\* \s+   (line 72)
WsRunEnd(s, i) == IF In(s, i, WS) THEN Skip(s, i, WS) ELSE 0

\* the literal "\n" of str.replace   (line 72)
NewlineEnd(s, i) == IF In(s, i, {"\n"}) THEN i + 1 ELSE 0

\* \d+[A-Z]?\.\s+  from position b on (ci: [A-Z] under re.IGNORECASE)
ItemNumberEnd(s, b, ci) ==
    IF ~In(s, b, Digit) THEN 0
    ELSE Only({ IF In(s, d, {"."}) /\ In(s, d + 1, WS) THEN Skip(s, d + 1, WS) ELSE 0 :
                d \in { Only({ IF In(s, c, IF ci THEN AlphaIgnoreCase ELSE Upper) THEN c + 1 ELSE c :
                               c \in {Skip(s, b, Digit)} }) } })

\* Item\s+\d+[A-Z]?\.\s+   (lines 89 and 106; ci: re.IGNORECASE is set at 90 only)
ItemPrefixEnd(s, i, ci) ==
    IF ~LitAt(s, i, <<"I","t","e","m">>, ci) \/ ~In(s, i + 4, WS) THEN 0
    ELSE ItemNumberEnd(s, Skip(s, i + 4, WS), ci)

\* the pattern <[^>]+> in place of <[^>]*> : a variant that leaves "<>" alone
NonEmptyTagEnd(s, i) ==
    IF ~In(s, i, {"<"}) \/ In(s, i + 1, {">"}) THEN 0
    ELSE Only({ IF j <= Len(s) THEN j + 1 ELSE 0 : j \in {SkipNot(s, i + 1, {">"})} })

\* <[^>]*>   (line 100)
TagEnd(s, i) ==
    IF ~In(s, i, {"<"}) THEN 0
    ELSE Only({ IF j <= Len(s) THEN j + 1 ELSE 0 : j \in {SkipNot(s, i + 1, {">"})} })

\* the literal &nbsp; of str.replace   (line 101)
NbspEnd(s, i) == IF LitAt(s, i, <<"&","n","b","s","p",";">>, FALSE) THEN i + 6 ELSE 0

\* &#\d+;   (line 102)
EntityEnd(s, i) ==
    IF ~LitAt(s, i, <<"&","#">>, FALSE) \/ ~In(s, i + 2, Digit) THEN 0
    ELSE Only({ IF In(s, j, {";"}) THEN j + 1 ELSE 0 : j \in {Skip(s, i + 2, Digit)} })

\* Page\s+\d+  with re.IGNORECASE   (line 103)
PageEnd(s, i) ==
    IF ~LitAt(s, i, <<"P","a","g","e">>, TRUE) \/ ~In(s, i + 4, WS) THEN 0
    ELSE Only({ IF In(s, j, Digit) THEN Skip(s, j, Digit) ELSE 0 :
                j \in {Skip(s, i + 4, WS)} })

\* the pattern \s*\b\d+\b\s* in place of \s*\d+\s* : a variant that removes
\* standalone numbers only and leaves the digits inside a word
StandaloneNumberEnd(s, i) ==
    Only({ IF In(s, j, Digit) /\ ~In(s, j - 1, Alpha \cup Digit)
           THEN Only({ IF In(s, k, Alpha) THEN 0 ELSE Skip(s, k, WS) :
                       k \in {Skip(s, j, Digit)} })
           ELSE 0 :
           j \in {Skip(s, i, WS)} })

\* \s*\d+\s*   (line 104)
NumberEnd(s, i) ==
    Only({ IF In(s, j, Digit) THEN Only({ Skip(s, k, WS) : k \in {Skip(s, j, Digit)} })
           ELSE 0 :
           j \in {Skip(s, i, WS)} })

\* Table of Contents  with re.IGNORECASE   (line 105)
TocEnd(s, i) == IF LitAt(s, i, <<"T","a","b","l","e"," ","o","f"," ","C","o","n","t","e","n","t","s">>, TRUE) THEN i + 17 ELSE 0

\* Item\s+\d+[A-Z]?\.\s+[A-Z][a-zA-Z\s]+   (line 106, case-sensitive)
ItemHeaderEnd(s, i) ==
    Only({ IF e = 0 \/ ~In(s, e, Upper) \/ ~In(s, e + 1, Alpha \cup WS) THEN 0
           ELSE Skip(s, e + 1, Alpha \cup WS) :
           e \in {ItemPrefixEnd(s, i, FALSE)} })

\* \s{2,}   (line 107)
WsPairEnd(s, i) ==
    IF In(s, i, WS) /\ In(s, i + 1, WS) THEN Skip(s, i, WS) ELSE 0

\* $ without re.MULTILINE: the end of the text, or just before a final newline
AtDollar(s, k) == k = Len(s) + 1 \/ (k = Len(s) /\ s[k] = "\n")

\* the section name, escaped by re.escape, under re.IGNORECASE
NameEnd(s, i, name) == IF LitAt(s, i, name, TRUE) THEN i + Len(name) ELSE 0

\* the closing group without its $ alternative: a variant that can only stop
\* at an Item prefix
ItemOnlyStopEnd(s, k) == ItemPrefixEnd(s, k, TRUE)

\* the closing group as  (?:Item\s+\d+[A-Z]?\.\s+[A-Z][a-zA-Z\s]+|$)  without
\* re.IGNORECASE: a variant that stops only at a capitalised "Item N. Title"
TitledStopEnd(s, k) ==
    IF ItemHeaderEnd(s, k) # 0 THEN ItemHeaderEnd(s, k)
    ELSE IF AtDollar(s, k) THEN k ELSE 0

\* (?:Item\s+\d+[A-Z]?\.\s+|$), which closes the lazy group of line 89
SectionStopEnd(s, k) ==
    IF LitAt(s, k, <<"I","t","e","m">>, TRUE) /\ ItemPrefixEnd(s, k, TRUE) # 0
    THEN ItemPrefixEnd(s, k, TRUE)
    ELSE IF AtDollar(s, k) THEN k ELSE 0

\* the least k in lo..hi where the literal lit matches, or 0
LitFirst(s, lit, ci, lo, hi) ==
    IF \A k \in lo..hi : ~LitAt(s, k, lit, ci) THEN 0
    ELSE CHOOSE k \in lo..hi :
            LitAt(s, k, lit, ci) /\ \A j \in lo..(k - 1) : ~LitAt(s, j, lit, ci)

\* <title>(.*?)</title>  with re.IGNORECASE and without re.DOTALL (line 112):
\* the lazy group runs to the first </title>, and "." refuses a newline
TitleClose(s, i) == LitFirst(s, <<"<","/","t","i","t","l","e",">">>, TRUE, i + 7, Len(s))

TitleEnd(s, i) ==
    IF ~LitAt(s, i, <<"<","t","i","t","l","e",">">>, TRUE) THEN 0
    ELSE Only({ IF c = 0 \/ \E j \in (i + 7)..(c - 1) : s[j] = "\n" THEN 0 ELSE c + 8 :
                c \in {TitleClose(s, i)} })

\* (?:10-K|FORM 10-K)  with re.IGNORECASE (line 116)
MarkerEnd(s, i) ==
    IF LitAt(s, i, <<"1","0","-","K">>, TRUE) THEN i + 4
    ELSE IF LitAt(s, i, <<"F","O","R","M"," ","1","0","-","K">>, TRUE) THEN i + 9 ELSE 0

\* a pattern without a parameter
P(id) == [id |-> id, arg |-> <<>>]

MatchEnd(pat, s, i) ==
    CASE pat.id = "ws"      -> WsRunEnd(s, i)
      [] pat.id = "newline" -> NewlineEnd(s, i)
      [] pat.id = "tag"     -> TagEnd(s, i)
      [] pat.id = "nbsp"    -> NbspEnd(s, i)
      [] pat.id = "entity"  -> EntityEnd(s, i)
      [] pat.id = "page"    -> PageEnd(s, i)
      [] pat.id = "number"  -> NumberEnd(s, i)
      [] pat.id = "toc"     -> TocEnd(s, i)
      [] pat.id = "header"  -> ItemHeaderEnd(s, i)
      [] pat.id = "wspair"  -> WsPairEnd(s, i)
      [] pat.id = "name"    -> NameEnd(s, i, pat.arg)
      [] pat.id = "stop"    -> SectionStopEnd(s, i)
      [] pat.id = "title"   -> TitleEnd(s, i)
      [] pat.id = "marker"  -> MarkerEnd(s, i)

\* re.search's scan: the least k in lo..hi where pat matches, or 0
FirstMatch(pat, s, lo, hi) ==
    IF \A k \in lo..hi : MatchEnd(pat, s, k) = 0 THEN 0
    ELSE CHOOSE k \in lo..hi :
            MatchEnd(pat, s, k) # 0 /\ \A j \in lo..(k - 1) : MatchEnd(pat, s, j) = 0

\* the scan of re.sub / str.replace over positions lo..hi, entered with the
\* scanner at position cur: a position before cur lies inside a match already
\* replaced; at cur a match is replaced by repl and the scanner jumps past it,
\* any other character is copied.  The range is halved, the left half first.
RECURSIVE SubScan(_, _, _, _, _, _)
SubScan(pat, repl, s, lo, hi, cur) ==
    IF lo > hi THEN [out |-> <<>>, cur |-> cur]
    ELSE IF lo = hi THEN
        IF cur # lo THEN [out |-> <<>>, cur |-> cur]
        ELSE Only({ IF e # 0 THEN [out |-> repl, cur |-> e]
                    ELSE [out |-> <<s[lo]>>, cur |-> lo + 1] :
                    e \in {MatchEnd(pat, s, lo)} })
    ELSE Only({ Only({ Only({ [out |-> l.out \o r.out, cur |-> r.cur] :
                              r \in {SubScan(pat, repl, s, mid + 1, hi, l.cur)} }) :
                       l \in {SubScan(pat, repl, s, lo, mid, cur)} }) :
                mid \in {(lo + hi) \div 2} })

\* re.sub(pat, repl, s)  and  s.replace(old, new)
ReSub(pat, repl, s) == SubScan(pat, repl, s, 1, Len(s), 1).out

\* --------------------------------------------------- the cleaning pipeline

\* line 72: re.sub(r'\s+', ' ', html).replace('\n', ' ')
Normalize(html) ==
    Only({ ReSub(P("newline"), <<" ">>, t) : t \in {ReSub(P("ws"), <<" ">>, html)} })

\* line 100
RemoveTags(t) == ReSub(P("tag"), <<>>, t)

\* line 101
ReplaceNbsp(t) == ReSub(P("nbsp"), <<" ">>, t)

\* line 102
RemoveEntities(t) == ReSub(P("entity"), <<>>, t)

\* line 103
RemovePageNumbers(t) == ReSub(P("page"), <<>>, t)

\* line 104
RemoveNumbers(t) == ReSub(P("number"), <<" ">>, t)

\* line 105
RemoveToc(t) == ReSub(P("toc"), <<>>, t)

\* line 106
RemoveItemHeaders(t) == ReSub(P("header"), <<>>, t)

\* line 107 without its .strip(): a variant
CollapseOnly(t) == ReSub(P("wspair"), <<" ">>, t)

\* line 107
CollapseSpaces(t) == Only({ Strip(u) : u \in {ReSub(P("wspair"), <<" ">>, t)} })

\* ------------------------------------------------------- section_regex

\* section_match is None
NoSection == [matched |-> FALSE, gstart |-> 0, gend |-> 0]

\* the search with the last occurrence of the section name in place of the
\* first: a variant
LastNameSearch(s, name) ==
    IF \A k \in 1..Len(s) : ~LitAt(s, k, name, TRUE) THEN NoSection
    ELSE Only({ Only({ [matched |-> TRUE, gstart |-> p,
                        gend |-> FirstMatch(P("stop"), s, p, Len(s) + 1)] :
                       p \in {Skip(s, i + Len(name), WS)} }) :
                i \in {CHOOSE k \in 1..Len(s) :
                          /\ LitAt(s, k, name, TRUE)
                          /\ \A j \in (k + 1)..Len(s) : ~LitAt(s, j, name, TRUE)} })

\* the lazy group(1) from position p up to the first position where the
\* closing alternation matches
SectionFrom(s, p) ==
    Only({ IF e = 0 THEN NoSection ELSE [matched |-> TRUE, gstart |-> p, gend |-> e] :
           e \in {FirstMatch(P("stop"), s, p, Len(s) + 1)} })

\* section_regex.search(normalized_html), lines 88-93: the leftmost match of
\* the section name, the greedy \s*, and the span of group(1)
section_regex(s, name) ==
    Only({ IF i = 0 THEN NoSection ELSE SectionFrom(s, Skip(s, i + Len(name), WS)) :
           i \in {FirstMatch([id |-> "name", arg |-> name], s, 1, Len(s))} })

\* group(1) of a match
Group1(s, m) == SubSeq(s, m.gstart, m.gend - 1)

\* ------------------------------------------------------- company name

\* title_match is None
NoTitle == <<"no title">>

\* group(1) of title_match, lines 112-114
TitleText(html) ==
    Only({ IF i = 0 THEN NoTitle ELSE SubSeq(html, i + 7, TitleClose(html, i) - 1) :
           i \in {FirstMatch(P("title"), html, 1, Len(html))} })

\* lines 111-120: the ticker in upper case, or the <title> text up to the
\* first "10-K" / "FORM 10-K" marker, or the whole <title> text
company_name(ticker, html) ==
    Only({ IF t = NoTitle THEN StrUpper(ticker)
           ELSE Only({ IF k # 0 THEN Strip(SubSeq(t, 1, k - 1)) ELSE Strip(t) :
                       k \in {FirstMatch(P("marker"), t, 1, Len(t))} }) :
           t \in {TitleText(html)} })

\* ------------------------------------------------------- filing_regex
\* lines 42-46, under re.DOTALL | re.IGNORECASE.  The pattern is six anchors
\* joined by lazy  .*?  gaps:
\*   1  <tr[^>]*>
\*   2  <td[^>]*>10-K<\/td>
\*   3  <td[^>]*><a\s+href="(\/Archives\\/edgar\\/data\\/[^"]+\.htm)"[^>]*>
\*   4  <\/td>
\*   5  <td[^>]*>\s*YEAR-\d{2}-\d{2}\s*<\/td>
\*   6  <\/tr>

\* str(year): the decimal digits of a positive integer
RECURSIVE IntToStr(_)
IntToStr(n) ==
    IF n < 10 THEN <<DigitSeq[n + 1]>>
    ELSE IntToStr(n \div 10) \o IntToStr(n % 10)

\* <t[^>]*>  for a tag name t: the position just past the first ">" , or 0
OpenTagEnd(s, i, t) ==
    IF ~LitAt(s, i, t, TRUE) THEN 0
    ELSE Only({ IF j <= Len(s) THEN j + 1 ELSE 0 : j \in {SkipNot(s, i + Len(t), {">"})} })

\* the literal path the href must start with: the pattern text
\* \/Archives\\/edgar\\/data\\/ asks for a backslash before each later slash
HrefPrefix == <<"/","A","r","c","h","i","v","e","s","\\","/","e","d","g","a","r","\\","/","d","a","t","a","\\","/">>

\* anchor 3: the position of the opening quote of href="..." , or 0
LinkQuote(s, i) ==
    Only({ IF a = 0 \/ ~LitAt(s, a, <<"<","a">>, TRUE) \/ ~In(s, a + 2, WS) THEN 0
           ELSE Only({ IF LitAt(s, h, <<"h","r","e","f","=","\"">>, TRUE) THEN h + 5 ELSE 0 :
                       h \in {Skip(s, a + 2, WS)} }) :
           a \in {OpenTagEnd(s, i, <<"<","t","d">>)} })

\* no match of anchor 3
NoLink == [end |-> 0, gstart |-> 0, gend |-> 0]

\* anchor 3 from the first character g of the href: [^"]+\.htm"[^>]*>
LinkTail(s, g) ==
    Only({ IF c > Len(s) \/ c - (g + Len(HrefPrefix)) < 5 \/ ~LitAt(s, c - 4, <<".","h","t","m">>, TRUE)
           THEN NoLink
           ELSE Only({ IF e <= Len(s) THEN [end |-> e + 1, gstart |-> g, gend |-> c]
                       ELSE NoLink :
                       e \in {SkipNot(s, c + 1, {">"})} }) :
           c \in {SkipNot(s, g + Len(HrefPrefix), {"\""})} })

\* anchor 3: the span [gstart, gend) of group(1) and the end of the anchor
LinkCell(s, i) ==
    Only({ IF q = 0 \/ ~LitAt(s, q + 1, HrefPrefix, TRUE) THEN NoLink
           ELSE LinkTail(s, q + 1) :
           q \in {LinkQuote(s, i)} })

\* anchor 5 from position b, after <td[^>]*>\s* : YEAR-\d{2}-\d{2}\s*<\/td>
DateEnd(s, b, yr) ==
    Only({ IF /\ LitAt(s, b, yr, TRUE)
              /\ In(s, d, {"-"}) /\ In(s, d + 1, Digit) /\ In(s, d + 2, Digit)
              /\ In(s, d + 3, {"-"}) /\ In(s, d + 4, Digit) /\ In(s, d + 5, Digit)
           THEN Only({ IF LitAt(s, z, <<"<","/","t","d",">">>, TRUE) THEN z + 5 ELSE 0 :
                       z \in {Skip(s, d + 6, WS)} })
           ELSE 0 :
           d \in {b + Len(yr)} })

\* anchor 5 for the escaped year text yr
DateCellEnd(s, i, yr) ==
    Only({ IF a = 0 THEN 0 ELSE DateEnd(s, Skip(s, a, WS), yr) :
           a \in {OpenTagEnd(s, i, <<"<","t","d">>)} })

\* anchor 2
FormCellEnd(s, i) ==
    Only({ IF a # 0 /\ LitAt(s, a, <<"1","0","-","K","<","/","t","d",">">>, TRUE) THEN a + 9 ELSE 0 :
           a \in {OpenTagEnd(s, i, <<"<","t","d">>)} })

\* the end of anchor n matched at position i, or 0
AnchorEnd(n, yr, s, i) ==
    CASE n = 1 -> OpenTagEnd(s, i, <<"<","t","r">>)
      [] n = 2 -> FormCellEnd(s, i)
      [] n = 3 -> LinkCell(s, i).end
      [] n = 4 -> (IF LitAt(s, i, <<"<","/","t","d",">">>, TRUE) THEN i + 5 ELSE 0)
      [] n = 5 -> DateCellEnd(s, i, yr)
      [] n = 6 -> (IF LitAt(s, i, <<"<","/","t","r",">">>, TRUE) THEN i + 5 ELSE 0)

\* anchor n matches at i and ends at or before limit (every anchor starts
\* with "<")
Fits(n, yr, s, i, limit) ==
    /\ In(s, i, {"<"})
    /\ Only({ e # 0 /\ e <= limit : e \in {AnchorEnd(n, yr, s, i)} })

\* the least k in lo..hi where anchor n fits, or 0
FirstAnchor(n, yr, s, lo, hi, limit) ==
    IF \A k \in lo..hi : ~Fits(n, yr, s, k, limit) THEN 0
    ELSE CHOOSE k \in lo..hi :
            Fits(n, yr, s, k, limit) /\ \A j \in lo..(k - 1) : ~Fits(n, yr, s, j, limit)

\* the greatest k in lo..hi where anchor n fits, or 0
LastAnchor(n, yr, s, lo, hi, limit) ==
    IF \A k \in lo..hi : ~Fits(n, yr, s, k, limit) THEN 0
    ELSE CHOOSE k \in lo..hi :
            Fits(n, yr, s, k, limit) /\ \A j \in (k + 1)..hi : ~Fits(n, yr, s, j, limit)

\* no match of filing_regex
NoFiling == [matched |-> FALSE, gstart |-> 0, gend |-> 0]

\* A lazy gap followed by anchors n..6 succeeds from position p exactly when
\* p is at or before the last position from which anchors n..6 can still be
\* matched in order, which is what the backtracking engine finds by trying
\* every later position.  Latest(yr, s)[n] is that last position for anchor
\* n = 2..6 (0: nowhere), computed from anchor 6 backwards.
LatestFrom(n, yr, s, later) ==
    IF later = 0 THEN 0 ELSE LastAnchor(n, yr, s, 1, Len(s), later)

Latest(yr, s) ==
    Only({ Only({ Only({ Only({ Only({ [n \in 2..6 |-> <<g2, g3, g4, g5, g6>>[n - 1]] :
        g2 \in {LatestFrom(2, yr, s, g3)} }) :
        g3 \in {LatestFrom(3, yr, s, g4)} }) :
        g4 \in {LatestFrom(4, yr, s, g5)} }) :
        g5 \in {LatestFrom(5, yr, s, g6)} }) :
        g6 \in {LastAnchor(6, yr, s, 1, Len(s), Len(s) + 1)} })

\* the match itself: the leftmost <tr from which the whole pattern matches
\* (i1); each lazy gap then stops at the first position from which the rest
\* still matches (i2, i3); group(1) is the href taken at anchor 3
Leftmost(yr, s, g) ==
    Only({ IF i1 = 0 THEN NoFiling ELSE
           Only({ Only({ [matched |-> TRUE, gstart |-> LinkCell(s, i3).gstart,
                          gend |-> LinkCell(s, i3).gend] :
               i3 \in {FirstAnchor(3, yr, s, AnchorEnd(2, yr, s, i2), Len(s), g[4])} }) :
               i2 \in {FirstAnchor(2, yr, s, AnchorEnd(1, yr, s, i1), Len(s), g[3])} }) :
           i1 \in {FirstAnchor(1, yr, s, 1, Len(s), g[2])} })

\* filing_regex.search(search_results_html), line 48
filing_regex(s, year) ==
    Only({ IF g[2] = 0 THEN NoFiling ELSE Leftmost(IntToStr(year), s, g) :
           g \in {Latest(IntToStr(year), s)} })

\* ------------------------------------------------------------ messages
\* A message is the sequence of the pieces its f-string joins.

\* None
NoneVal == <<"None">>

\* the default of the parameter section_name, line 15
DefaultSection == <<"I","t","e","m"," ","1","."," ","B","u","s","i","n","e","s","s">>

\* line 26
edgar_company_search_url(ticker) ==
    <<"h","t","t","p","s",":","/","/","w","w","w",".","s","e","c",".","g","o","v","/","c","g","i","-","b","i","n","/","b","r","o","w","s","e","-","e","d","g","a","r","?","a","c","t","i","o","n","=","g","e","t","c","o","m","p","a","n","y","&","C","I","K","=">>
    \o ticker \o <<"&","t","y","p","e","=","1","0","-","K","&","o","w","n","e","r","=","e","x","c","l","u","d","e","&","c","o","u","n","t","=","1","0","0">>

\* line 54
NotFoundMsg(ticker, year) ==
    <<"Could not find a 10-K filing for ">> \o ticker \o <<" in fiscal year ">>
    \o IntToStr(year)
    \o <<" on SEC EDGAR. Please ensure the ticker and year are correct, and that the filing exists on EDGAR.">>

\* line 124
NoSectionMsg(name) ==
    <<"Could not extract '">> \o name
    \o <<"' from the 10-K. The section structure might be different or the content is missing.">>

\* line 127: str(e) sits between the two fixed pieces
ErrorMsg(e) ==
    <<"An error occurred: ", e,
      ". This might be due to network issues, an invalid ticker/year, or a change in SEC EDGAR's website structure. Please try again.">>

\* ------------------------------------------------------------ exceptions
\* An exception is the method resolution order of its class, from the class
\* itself up to BaseException, and its str(e).

\* isinstance(e, Exception), the test of the except clause of line 126
IsException(e) == \E k \in 1..Len(e.mro) : e.mro[k] = "Exception"

\* no exception
NoExc == [mro |-> <<>>, text |-> ""]

\* what re raises when it is handed None instead of text
TypeErrorText == "expected string or bytes-like object, got 'NoneType'"

TypeErrorRaised ==
    [mro |-> <<"TypeError", "Exception", "BaseException">>, text |-> TypeErrorText]

\* ------------------------------------------------------------ inputs

\* the longest listing, in rows
MaxRows == 2

\* the longest document body, in fragments
MaxBody == 3

\* fiscal years the form lets through (line 137: 1994..2025)
Years == {2023, 2024}

\* what the user types into the ticker box (line 136)
TickerInputs == {<<"n","a","u","t">>, <<"U+FB01","é">>, <<>>}

\* what a browsing.browse call raises: a failed request, the missing tool,
\* an interrupt of the running script, and a group that wraps an interrupt
Raised == {
    [mro |-> <<"HTTPError", "URLError", "OSError", "Exception", "BaseException">>,
     text |-> "HTTP Error 403: Forbidden"],
    [mro |-> <<"NameError", "Exception", "BaseException">>,
     text |-> "name 'browsing' is not defined"],
    [mro |-> <<"KeyboardInterrupt", "BaseException">>, text |-> ""],
    [mro |-> <<"BaseExceptionGroup", "BaseException">>, text |-> "g (1 sub-exception)"] }

\* A listing row as EDGAR serves it: the form type, the filing year and
\* whether the href is written with plain slashes or with escaped ones.
RowKinds == [form : {<<"1","0","-","K">>, <<"8","-","K">>}, year : Years, escaped : BOOLEAN]

\* all sequences over S of length 0..n
RECURSIVE SeqsUpTo(_, _)
SeqsUpTo(S, n) ==
    IF n = 0 THEN {<<>>}
    ELSE LET shorter == SeqsUpTo(S, n - 1)
         IN  shorter \cup {Append(q, x) : q \in {r \in shorter : Len(r) = n - 1}, x \in S}

Listings == SeqsUpTo(RowKinds, MaxRows)

\* the document path of the k-th row
RowHref(r, k) ==
    (IF r.escaped THEN <<"/","A","r","c","h","i","v","e","s","\\","/","e","d","g","a","r","\\","/","d","a","t","a","\\","/">> ELSE <<"/","A","r","c","h","i","v","e","s","/","e","d","g","a","r","/","d","a","t","a","/">>)
    \o IntToStr(k) \o <<".","h","t","m">>

\* the markup of the k-th row
RenderRow(r, k) ==
    <<"<","t","r",">","<","t","d",">">> \o r.form \o <<"<","/","t","d",">","<","t","d",">","<","a"," ","h","r","e","f","=","\"">> \o RowHref(r, k)
    \o <<"\"",">","d","<","/","a",">","<","/","t","d",">","<","t","d",">">> \o IntToStr(r.year) \o <<"-","0","2","-","1","0","<","/","t","d",">","<","/","t","r",">">>

RECURSIVE RenderRows(_, _)
RenderRows(rows, k) ==
    IF k > Len(rows) THEN <<>>
    ELSE RenderRow(rows[k], k) \o <<"\n">> \o RenderRows(rows, k + 1)

RenderListing(rows) == <<"<","t","a","b","l","e",">","\n">> \o RenderRows(rows, 1) \o <<"<","/","t","a","b","l","e",">">>

RECURSIVE Flatten(_)
Flatten(frags) ==
    IF frags = <<>> THEN <<>> ELSE Head(frags) \o Flatten(Tail(frags))

\* Document families: a head followed by up to MaxBody fragments.
Families == {
    \* headings: a contents entry, the heading again, later Item references
    [head |-> <<"I","t","e","m"," ","1","."," ","B","u","s","i","n","e","s","s">>,
     frags |-> { <<" ","3"," ","I","t","e","m"," ","1","A","."," ","R","i","s","k"," ","F","a","c","t","o","r","s"," ","9"," ">>,
                 <<"I","t","e","m"," ","1","."," ","B","u","s","i","n","e","s","s"," ","O","u","r"," ","s","h","o","p","s"," ">>,
                 <<"I","t","e","m"," ","1","A","."," ","R","i","s","k"," ","F","a","c","t","o","r","s"," ">>,
                 <<" ","s","e","e"," ","i","t","e","m"," ","7","."," ","b","e","l","o","w"," ">>,
                 <<" ","I","t","e","m"," ","7","."," ","i","s"," ">> }],
    \* entities, and what deleting material between their halves leaves
    [head |-> <<"I","T","E","M"," ","1",".","\n","B","U","S","I","N","E","S","S">>,
     frags |-> { <<"&","n","b">>, <<"s","p",";">>, <<"&","#","1","6","0",";">>, <<"&","n","b","s","p",";">>, <<"P","a","g","e"," ","3">>, <<" ","O","u","r"," ">> }],
    \* angle brackets, and material between them that later steps delete
    [head |-> <<"I","t","e","m"," ","1","."," "," ","B","u","s","i","n","e","s","s","\n">>,
     frags |-> { <<"<">>, <<">">>, <<"<","b",">">>, <<" ","a"," ">>, <<"\n">>, <<"&","#","1",";">>, <<"1","2">> }],
    \* digits, and a header that only appears once a tag is removed
    [head |-> <<"<","t","i","t","l","e",">","A","c","m","e"," ","C","o","r","p"," ","1","0","-","K","<","/","t","i","t","l","e",">","\n","I","t","e","m"," ","1","."," ","B","u","s","i","n","e","s","s">>,
     frags |-> { <<" ","1","2"," ">>, <<"Q","4">>, <<"I","<","b",">","t","e","m"," ","2","."," ","L","e","g","a","l"," ","T","h","i","n","g","s"," ">>,
                 <<"T","a","b","l","e"," ","o","f"," ","C","o","n","t","e","n","t","s">>, <<" ","O","u","r"," ">> }],
    \* no heading, unless the fragments spell one
    [head |-> <<>>,
     frags |-> { <<"I","t","e","m"," ","1","."," ","B","u","s","i","n","e","s">>, <<"s"," ">>, <<" ","O","u","r"," ">> }],
    \* whitespace, digits and letters beyond ASCII
    [head |-> <<"I","t","e","m"," ","1",".","","B","u","U+017F","i","n","e","U+017F","U+017F">>,
     frags |-> { <<"U+0663">>, <<" ","I","t","e","m","U+2003","U+0663","U+212A","."," ","R","i","s","k"," ">>, <<" ","O","u","r"," ">>,
                 <<" ">>, <<"P","a","g","e","","U+FF13">> }] }

ExtractDocs ==
    UNION { { f.head \o Flatten(b) : b \in SeqsUpTo(f.frags, MaxBody) } : f \in Families }

\* the documents the whole pipeline is run on
Docs == { <<"<","t","i","t","l","e",">","A","c","m","e"," ","C","o","r","p"," ","F","o","r","m"," ","1","0","-","K","<","/","t","i","t","l","e",">","\n","I","t","e","m"," ","1","."," ","B","u","s","i","n","e","s","s","\n","<","p",">","O","u","r"," ","s","h","o","p","s","<","/","p",">","\n","I","t","e","m"," ","1","A","."," ","R","i","s","k"," ","F","a","c","t","o","r","s","\n">>,
          <<"<","t","i","t","l","e",">","A","n","n","u","a","l"," ","R","e","p","o","r","t","<","/","t","i","t","l","e",">","I","t","e","m"," ","1","."," ","B","u","s","i","n","e","s","s"," ","1","2"," ","O","u","r"," ","s","h","o","p","s"," ","i","n"," ","2","0","2","4">>,
          <<"I","t","e","m"," ","1","."," ","B","u","s","i","n","e","s","s"," ","<","p",">"," ","<","/","p",">"," ","I","t","e","m"," ","1","A","."," ","R","i","s","k"," ","F","a","c","t","o","r","s"," ","x">>,
          <<"i","t","e","m"," ","1","."," ","b","u","s","i","n","e","s","s"," ","&","n","b","s","p",";"," ","1","2">>,
          <<"I","t","e","m"," ","1","."," ","B","u","s","i","n","e","s","s"," ","I","t","e","m"," ","1","A","."," ","R","i","s","k"," ","F","a","c","t","o","r","s">>,
          <<"<","t","U+0131","t","l","e",">","A","c","m","e"," ","F","o","r","m"," ","1","0","-","U+212A"," ","<","/","t","i","t","l","e",">","I","t","e","m"," ","1","."," ","B","u","U+017F","i","n","e","U+017F","U+017F","","O","u","r"," ","U+0663"," ","s","h","o","p","s"," ">>,
          <<"<","h","t","m","l",">","n","o","t","h","i","n","g","<","/","h","t","m","l",">">> }

\* ------------------------------------------------------------ state

VARIABLES
    pc,                   \* where the button handler / get_10k_section stands
    ticker,               \* ticker_input, upper-cased (line 136)
    year,                 \* year_input
    edgar_rows,           \* the rows EDGAR served for the listing
    fetches,              \* every browsing.browse call: its url and outcome
    search_results_html,
    target_10k_url,
    full_10k_html,
    normalized_html,
    section_match,        \* the span of section_match.group(1)
    extracted_text,
    result,               \* the pair get_10k_section returns
    shown                 \* what the page shows after the click

vars == <<pc, ticker, year, edgar_rows, fetches, search_results_html,
          target_10k_url, full_10k_html, normalized_html, section_match,
          extracted_text, result, shown>>

\* one browsing.browse call: its url, whether it returned text ("ok"),
\* returned None ("none") or raised ("raise"), and what it raised
Call(url, outcome, exc) == [url |-> url, outcome |-> outcome, exc |-> exc]

Init ==
    /\ pc = "idle"
    /\ ticker = <<>>
    /\ year = 0
    /\ edgar_rows = <<>>
    /\ fetches = <<>>
    /\ search_results_html = <<>>
    /\ target_10k_url = <<>>
    /\ full_10k_html = <<>>
    /\ normalized_html = <<>>
    /\ section_match = NoSection
    /\ extracted_text = <<>>
    /\ result = <<>>
    /\ shown = <<>>

\* an except clause that goes back to the listing fetch: a variant
ExceptRetry(e) ==
    /\ result' = result
    /\ pc' = "l31"

\* the except clause, lines 126-127: an Exception raised inside the try block
\* becomes the returned pair; anything else leaves get_10k_section and the
\* handler with no pair returned and nothing shown
Except(e) ==
    IF IsException(e)
    THEN /\ result' = <<NoneVal, ErrorMsg(e.text)>>
         /\ pc' = "returned"
    ELSE /\ result' = result
         /\ pc' = "escaped"

\* lines 136-143: the click on the button with both inputs read
Click ==
    /\ pc = "idle"
    /\ \E t \in TickerInputs, y \in Years :
          /\ ticker' = StrUpper(t)
          /\ year' = y
          /\ IF StrUpper(t) # <<>> /\ y # 0
             THEN pc' = "l31" /\ shown' = shown
             ELSE pc' = "shown" /\ shown' = <<"warning">>
    /\ UNCHANGED <<edgar_rows, fetches, search_results_html, target_10k_url,
                   full_10k_html, normalized_html, section_match,
                   extracted_text, result>>

\* line 31: browsing.browse returns the listing
FetchListingOk ==
    /\ pc = "l31"
    /\ \E rows \in Listings :
          /\ edgar_rows' = rows
          /\ search_results_html' = RenderListing(rows)
    /\ fetches' = Append(fetches, Call(edgar_company_search_url(ticker), "ok", NoExc))
    /\ pc' = "l48"
    /\ UNCHANGED <<ticker, year, target_10k_url, full_10k_html, normalized_html,
                   section_match, extracted_text, result, shown>>

\* line 31: browsing.browse returns no text
FetchListingNone ==
    /\ pc = "l31"
    /\ search_results_html' = NoneVal
    /\ fetches' = Append(fetches, Call(edgar_company_search_url(ticker), "none", NoExc))
    /\ pc' = "l48"
    /\ UNCHANGED <<ticker, year, edgar_rows, target_10k_url, full_10k_html,
                   normalized_html, section_match, extracted_text, result, shown>>

\* line 31: browsing.browse raises
FetchListingRaise ==
    /\ pc = "l31"
    /\ \E e \in Raised :
          /\ fetches' = Append(fetches, Call(edgar_company_search_url(ticker), "raise", e))
          /\ Except(e)
    /\ UNCHANGED <<ticker, year, edgar_rows, search_results_html, target_10k_url,
                   full_10k_html, normalized_html, section_match, extracted_text, shown>>

\* lines 33-56: filing_regex.search, the url, the "not found" return
Locate ==
    /\ pc = "l48"
    /\ IF search_results_html = NoneVal
       THEN /\ Except(TypeErrorRaised)
            /\ UNCHANGED target_10k_url
       ELSE \E m \in {filing_regex(search_results_html, year)} :
            IF m.matched /\ Group1(search_results_html, m) # <<>>
            THEN /\ target_10k_url' = <<"h","t","t","p","s",":","/","/","w","w","w",".","s","e","c",".","g","o","v">> \o Group1(search_results_html, m)
                 /\ pc' = "l60"
                 /\ UNCHANGED result
            ELSE /\ target_10k_url' = <<>>
                 /\ result' = <<NoneVal, NotFoundMsg(ticker, year)>>
                 /\ pc' = "returned"
    /\ UNCHANGED <<ticker, year, edgar_rows, fetches, search_results_html,
                   full_10k_html, normalized_html, section_match, extracted_text, shown>>

\* line 60: browsing.browse returns the document
FetchDocumentOk ==
    /\ pc = "l60"
    /\ \E d \in Docs : full_10k_html' = d
    /\ fetches' = Append(fetches, Call(target_10k_url, "ok", NoExc))
    /\ pc' = "l72"
    /\ UNCHANGED <<ticker, year, edgar_rows, search_results_html, target_10k_url,
                   normalized_html, section_match, extracted_text, result, shown>>

\* line 60: browsing.browse returns no text
FetchDocumentNone ==
    /\ pc = "l60"
    /\ full_10k_html' = NoneVal
    /\ fetches' = Append(fetches, Call(target_10k_url, "none", NoExc))
    /\ pc' = "l72"
    /\ UNCHANGED <<ticker, year, edgar_rows, search_results_html, target_10k_url,
                   normalized_html, section_match, extracted_text, result, shown>>

\* line 60: browsing.browse raises
FetchDocumentRaise ==
    /\ pc = "l60"
    /\ \E e \in Raised :
          /\ fetches' = Append(fetches, Call(target_10k_url, "raise", e))
          /\ Except(e)
    /\ UNCHANGED <<ticker, year, edgar_rows, search_results_html, target_10k_url,
                   full_10k_html, normalized_html, section_match, extracted_text, shown>>

\* line 72
NormalizeHtml ==
    /\ pc = "l72"
    /\ IF full_10k_html = NoneVal
       THEN /\ Except(TypeErrorRaised)
            /\ UNCHANGED normalized_html
       ELSE /\ normalized_html' = Normalize(full_10k_html)
            /\ pc' = "l93"
            /\ UNCHANGED result
    /\ UNCHANGED <<ticker, year, edgar_rows, fetches, search_results_html,
                   target_10k_url, full_10k_html, section_match, extracted_text, shown>>

\* lines 88-97: section_regex.search, then group(1).strip()
SearchSection ==
    /\ pc = "l93"
    /\ \E m \in {section_regex(normalized_html, DefaultSection)} :
          /\ section_match' = m
          /\ IF m.matched
             THEN /\ extracted_text' = Strip(Group1(normalized_html, m))
                  /\ pc' = "l100"
             ELSE /\ extracted_text' = <<>>
                  /\ pc' = "l109"
    /\ UNCHANGED <<ticker, year, edgar_rows, fetches, search_results_html,
                   target_10k_url, full_10k_html, normalized_html, result, shown>>

\* one cleaning line: extracted_text is rebound and control moves on
CleanStep(at, text, next) ==
    /\ pc = at
    /\ extracted_text' = text
    /\ pc' = next
    /\ UNCHANGED <<ticker, year, edgar_rows, fetches, search_results_html,
                   target_10k_url, full_10k_html, normalized_html, section_match,
                   result, shown>>

\* line 100
CleanTags == CleanStep("l100", RemoveTags(extracted_text), "l101")

\* line 101
CleanNbsp == CleanStep("l101", ReplaceNbsp(extracted_text), "l102")

\* line 102
CleanEntities == CleanStep("l102", RemoveEntities(extracted_text), "l103")

\* line 103
CleanPageNumbers == CleanStep("l103", RemovePageNumbers(extracted_text), "l104")

\* line 104
CleanNumbers == CleanStep("l104", RemoveNumbers(extracted_text), "l105")

\* line 105
CleanToc == CleanStep("l105", RemoveToc(extracted_text), "l106")

\* line 106
CleanItemHeaders == CleanStep("l106", RemoveItemHeaders(extracted_text), "l107")

\* line 107
CleanSpaces == CleanStep("l107", CollapseSpaces(extracted_text), "l109")

\* lines 109-124: the text with the company name, or the "could not extract" pair
ReturnSection ==
    /\ pc = "l109"
    /\ result' = IF extracted_text # <<>>
                 THEN <<extracted_text, company_name(ticker, full_10k_html)>>
                 ELSE <<NoneVal, NoSectionMsg(DefaultSection)>>
    /\ pc' = "returned"
    /\ UNCHANGED <<ticker, year, edgar_rows, fetches, search_results_html,
                   target_10k_url, full_10k_html, normalized_html, section_match,
                   extracted_text, shown>>

\* "if content:" of line 145: None and "" are false
Truthy(content) == content # NoneVal /\ content # <<>>

\* lines 143-149: the handler shows the section or the error
Present ==
    /\ pc = "returned"
    /\ shown' = IF Truthy(result[1])
                THEN <<"subheader", result[2], "markdown", result[1]>>
                ELSE <<"error", result[2]>>
    /\ pc' = "shown"
    /\ UNCHANGED <<ticker, year, edgar_rows, fetches, search_results_html,
                   target_10k_url, full_10k_html, normalized_html, section_match,
                   extracted_text, result>>

Next ==
    \/ Click
    \/ FetchListingOk
    \/ FetchListingNone
    \/ FetchListingRaise
    \/ Locate
    \/ FetchDocumentOk
    \/ FetchDocumentNone
    \/ FetchDocumentRaise
    \/ NormalizeHtml
    \/ SearchSection
    \/ CleanTags
    \/ CleanNbsp
    \/ CleanEntities
    \/ CleanPageNumbers
    \/ CleanNumbers
    \/ CleanToc
    \/ CleanItemHeaders
    \/ CleanSpaces
    \/ ReturnSection
    \/ Present

Spec == Init /\ [][Next]_vars

\* ------------------------------------------------ the Extractor on its own
\* get_10k_section with the document just fetched (line 60 done), for every
\* document of ExtractDocs: the listing held the one matching row.

ExtractRows == <<[form |-> <<"1","0","-","K">>, year |-> 2024, escaped |-> TRUE]>>

InitExtract ==
    /\ pc = "l72"
    /\ ticker = <<"N","A","U","T">>
    /\ year = 2024
    /\ edgar_rows = ExtractRows
    /\ search_results_html = RenderListing(ExtractRows)
    /\ target_10k_url = <<"h","t","t","p","s",":","/","/","w","w","w",".","s","e","c",".","g","o","v">> \o RowHref(ExtractRows[1], 1)
    /\ fetches = << Call(edgar_company_search_url(<<"N","A","U","T">>), "ok", NoExc),
                    Call(<<"h","t","t","p","s",":","/","/","w","w","w",".","s","e","c",".","g","o","v">> \o RowHref(ExtractRows[1], 1), "ok", NoExc) >>
    /\ full_10k_html \in ExtractDocs
    /\ normalized_html = <<>>
    /\ section_match = NoSection
    /\ extracted_text = <<>>
    /\ result = <<>>
    /\ shown = <<>>

NextExtract ==
    \/ NormalizeHtml
    \/ SearchSection
    \/ CleanTags
    \/ CleanNbsp
    \/ CleanEntities
    \/ CleanPageNumbers
    \/ CleanNumbers
    \/ CleanToc
    \/ CleanItemHeaders
    \/ CleanSpaces
    \/ ReturnSection
    \/ Present

SpecExtract == InitExtract /\ [][NextExtract]_vars

\* ------------------------------------------------------------ properties

\* get_10k_section has returned its pair
Returned == pc = "returned" \/ (pc = "shown" /\ result # <<>>)

\* the call returned a text
Succeeded == Returned /\ result[1] # NoneVal

\* lines 100-107 in one piece
CleanAll(t) ==
    CollapseSpaces(RemoveItemHeaders(RemoveToc(RemoveNumbers(
        RemovePageNumbers(RemoveEntities(ReplaceNbsp(RemoveTags(t))))))))

\* lines 97-124 for the slice t: the first element of the pair returned
Outcome(t) ==
    Only({ IF c = <<>> THEN NoneVal ELSE c : c \in {CleanAll(Strip(t))} })

\* the row is a 10-K filed in year y
RowMatches(r, y) == r.form = <<"1","0","-","K">> /\ r.year = y

\* the listing was served and searched
Located == fetches # <<>> /\ fetches[1].outcome = "ok" /\ pc \notin {"l31", "l48"}

\* ---- C1

\* C1 as the specification states it: whatever a fetch raises, nothing
\* escapes: the raise is the last fetch of its invocation, the call has
\* returned, and the pair is None with the message that carries str(e)
C1_EveryRaiseIsCaught ==
    \A k \in 1..Len(fetches) :
        fetches[k].outcome = "raise" =>
            /\ k = Len(fetches)
            /\ Returned
            /\ result = <<NoneVal, ErrorMsg(fetches[k].exc.text)>>

\* C1: a fetch that raises is the last fetch of its invocation (no retry, no
\* further fetch); when what it raised derives from Exception the call has
\* returned and the pair is None with the message that carries str(e); when
\* it derives from BaseException only it has left the call, no pair was
\* returned and the page shows nothing; a fetch that returned None makes the
\* next step raise TypeError, and that too ends as None with the message
\* carrying the text
C1_RaisedIsCaughtAndNotRetried ==
    /\ \A k \in 1..Len(fetches) :
          fetches[k].outcome = "raise" =>
              /\ k = Len(fetches)
              /\ IF IsException(fetches[k].exc)
                 THEN /\ Returned
                      /\ result = <<NoneVal, ErrorMsg(fetches[k].exc.text)>>
                      /\ result[2][2] = fetches[k].exc.text
                 ELSE /\ pc = "escaped"
                      /\ result = <<>>
                      /\ shown = <<>>
    /\ (fetches # <<>> /\ fetches[Len(fetches)].outcome = "none" /\ pc \notin {"l48", "l72"}) =>
          Returned /\ result = <<NoneVal, ErrorMsg(TypeErrorText)>>

\* the document fetch raised an Exception and the page shows the error
C1_DocumentFetchRaised ==
    /\ pc = "shown"
    /\ Len(fetches) = 2
    /\ fetches[2].outcome = "raise"
    /\ IsException(fetches[2].exc)
    /\ shown = <<"error", ErrorMsg(fetches[2].exc.text)>>

\* ---- C2

\* C2: when no row of the listing is a 10-K of the requested year, the call
\* returns None with the "could not find" message and the only fetch of the
\* invocation is the listing fetch
C2_NotFoundWithoutMatchingRow ==
    (Located /\ \A k \in 1..Len(edgar_rows) : ~RowMatches(edgar_rows[k], year)) =>
        /\ Returned
        /\ result = <<NoneVal, NotFoundMsg(ticker, year)>>
        /\ Len(fetches) = 1

\* no row matches and yet the document fetch was issued
C2_FetchedWithoutMatchingRow ==
    /\ Located
    /\ \A k \in 1..Len(edgar_rows) : ~RowMatches(edgar_rows[k], year)
    /\ Len(fetches) = 2
    /\ fetches[2].outcome = "ok"

\* ---- C3

\* C3: for a listing of 10-K rows one of which carries the requested year
\* in its date cell, the Locator resolves a url, and it is the href of a row
\* whose own date cell carries the requested year
C3_LinkFromRowOfRequestedYear ==
    (/\ Located
     /\ \A k \in 1..Len(edgar_rows) : edgar_rows[k].form = <<"1","0","-","K">>
     /\ \E k \in 1..Len(edgar_rows) : edgar_rows[k].year = year) =>
        \E k \in 1..Len(edgar_rows) :
            /\ RowMatches(edgar_rows[k], year)
            /\ target_10k_url = <<"h","t","t","p","s",":","/","/","w","w","w",".","s","e","c",".","g","o","v">> \o RowHref(edgar_rows[k], k)

\* two 10-K rows, the second of the requested year, and the url of the first
C3_LinkFromOtherYear ==
    /\ pc = "l60"
    /\ Len(edgar_rows) = 2
    /\ \A k \in 1..2 : edgar_rows[k].form = <<"1","0","-","K">>
    /\ edgar_rows[1].year # year
    /\ edgar_rows[2].year = year
    /\ target_10k_url = <<"h","t","t","p","s",":","/","/","w","w","w",".","s","e","c",".","g","o","v">> \o RowHref(edgar_rows[1], 1)

\* ---- C7

\* every message get_10k_section can return beside None
Messages ==
    {NotFoundMsg(ticker, year), NoSectionMsg(DefaultSection), ErrorMsg(TypeErrorText)}
    \cup {ErrorMsg(e.text) : e \in {r \in Raised : IsException(r)}}

\* the text has a character that is not whitespace
NonBlank(t) == \E k \in 1..Len(t) : t[k] \notin WS

\* the pair is of one of the two shapes: None with one of the messages, or
\* a text that is not empty and not blank with a name, which is the
\* upper-cased ticker or a stripped piece of the document
TwoShapes(r) ==
    /\ Len(r) = 2
    /\ \/ r[1] = NoneVal /\ r[2] \in Messages
       \/ /\ r[1] # NoneVal
          /\ NonBlank(r[1])
          /\ \/ r[2] = StrUpper(ticker)
             \/ \E a \in 1..(Len(full_10k_html) + 1), b \in 0..Len(full_10k_html) :
                   r[2] = Strip(SubSeq(full_10k_html, a, b))

\* the handler shows the section exactly when the first element is a
\* non-empty text, and the message as an error otherwise
ShownAsReturned ==
    shown = IF result[1] # NoneVal /\ result[1] # <<>>
            THEN <<"subheader", result[2], "markdown", result[1]>>
            ELSE <<"error", result[2]>>

\* C7 as the specification states it: every invocation that has ended has
\* returned a pair of one of the two shapes, and the handler has shown it
C7_EveryInvocationEndsInAShape ==
    /\ (pc = "escaped" \/ Returned) => Returned /\ TwoShapes(result)
    /\ (pc = "shown" /\ Returned) => ShownAsReturned

\* C7: every invocation that returns, returns a pair of one of the two
\* shapes, and the handler shows the section exactly when the first element
\* is a non-empty text and the message as an error otherwise; an invocation
\* that an exception deriving from BaseException only has left returns no
\* pair of either shape or any other, and the handler shows nothing
C7_TwoResultShapes ==
    /\ pc = "escaped" => result = <<>> /\ shown = <<>>
    /\ Returned => TwoShapes(result)
    /\ (pc = "shown" /\ Returned) => ShownAsReturned

\* the section was found, cleaned to nothing, and the page shows the error
C7_BlankSectionShownAsError ==
    /\ pc = "shown"
    /\ section_match.matched
    /\ NonBlank(Group1(normalized_html, section_match))
    /\ result = <<NoneVal, NoSectionMsg(DefaultSection)>>
    /\ shown = <<"error", NoSectionMsg(DefaultSection)>>

\* ---- C4

\* the heading that follows the Business section in a 10-K
NextHeading == <<"I","t","e","m"," ","1","A","."," ","R","i","s","k"," ","F","a","c","t","o","r","s">>

\* text matching  Item\s+\d+[A-Z]?\.\s+  in any letter case starts at k
ItemPrefixAt(s, k) ==
    /\ LitAt(s, k, <<"I","t","e","m">>, TRUE)
    /\ \E a \in (k + 5)..Len(s) :
          /\ \A j \in (k + 4)..(a - 1) : s[j] \in WS
          /\ \E b \in (a + 1)..Len(s) :
                /\ \A j \in a..(b - 1) : s[j] \in Digit
                /\ \/ s[b] = "." /\ In(s, b + 1, WS)
                   \/ s[b] \in AlphaIgnoreCase /\ In(s, b + 1, {"."}) /\ In(s, b + 2, WS)

\* the section name occurs at i and NextHeading at j, with nothing that
\* reads as an Item prefix between them
HeadingPair(s, i, j) ==
    /\ LitAt(s, i, DefaultSection, TRUE)
    /\ j >= i + Len(DefaultSection)
    /\ LitAt(s, j, NextHeading, FALSE)
    /\ \A k \in (i + Len(DefaultSection))..(j - 1) : ~ItemPrefixAt(s, k)

\* the text between the section name at i and position j
Between(s, i, j) == SubSeq(s, i + Len(DefaultSection), j - 1)

\* C4 as the specification states it: the returned text is the cleaned text
\* between the headings, where a document that names the section more than
\* once has its real heading at the last occurrence
C4_TextBetweenTheHeadings ==
    Returned =>
        \A i \in 1..Len(normalized_html) :
            (/\ LitAt(normalized_html, i, DefaultSection, TRUE)
             /\ \A k \in (i + 1)..Len(normalized_html) :
                   ~LitAt(normalized_html, k, DefaultSection, TRUE)) =>
                \A j \in i..Len(normalized_html) :
                    HeadingPair(normalized_html, i, j) =>
                        result[1] = Outcome(Between(normalized_html, i, j))

\* C4: the returned text is the cleaned text between the first occurrence of
\* the section name, in any letter case, and the heading after it; when
\* that text cleans to nothing the call returns None
C4_TextAfterFirstOccurrence ==
    Returned =>
        \A i \in 1..Len(normalized_html) :
            (/\ LitAt(normalized_html, i, DefaultSection, TRUE)
             /\ \A k \in 1..(i - 1) : ~LitAt(normalized_html, k, DefaultSection, TRUE)) =>
                \A j \in i..Len(normalized_html) :
                    HeadingPair(normalized_html, i, j) =>
                        result[1] = Outcome(Between(normalized_html, i, j))

\* a contents entry comes first: the section name occurs twice, the slice
\* is the entry's page number and the call returns None
C4_ContentsEntryFirst ==
    /\ pc = "returned"
    /\ \E i, k \in 1..Len(normalized_html) :
          /\ i < k
          /\ LitAt(normalized_html, i, DefaultSection, TRUE)
          /\ LitAt(normalized_html, k, DefaultSection, TRUE)
          /\ \E j \in i..k : HeadingPair(normalized_html, i, j)
          /\ \E j \in k..Len(normalized_html) : HeadingPair(normalized_html, k, j)
    /\ result[1] = NoneVal

\* ---- C5

\* C5: a returned text holds no literal "&nbsp;"
C5_NoNbspInOutput ==
    Succeeded => \A k \in 1..Len(result[1]) : ~LitAt(result[1], k, <<"&","n","b","s","p",";">>, FALSE)

\* a returned text that holds "&nbsp;"
C5_NbspReturned ==
    /\ pc = "returned"
    /\ result[1] # NoneVal
    /\ \E k \in 1..Len(result[1]) : LitAt(result[1], k, <<"&","n","b","s","p",";">>, FALSE)

\* ---- C6

\* no "<" of the text has a ">" anywhere after it
NoTag(t) ==
    \A i \in 1..Len(t) : t[i] = "<" => \A j \in (i + 1)..Len(t) : t[j] # ">"

\* C6: from the tag removal of line 100 on, through every later cleaning
\* step and in the returned text, no "<" is followed anywhere by a ">"
C6_NoTagInOutput ==
    /\ pc \in {"l101", "l102", "l103", "l104", "l105", "l106", "l107", "l109"} =>
          NoTag(extracted_text)
    /\ Succeeded => NoTag(result[1])

\* a document with a tag inside the section, and a returned text that still
\* holds both angle brackets
C6_BracketsSurvive ==
    /\ pc = "returned"
    /\ result[1] # NoneVal
    /\ \E k \in 1..Len(full_10k_html) : LitAt(full_10k_html, k, <<"<","b",">">>, FALSE)
    /\ \E i, j \in 1..Len(result[1]) : result[1][i] = ">" /\ result[1][j] = "<"

\* ---- C8

\* C8 as the specification states it: when no "Item N. Title" heading (the
\* number, the optional capital and capitalised words, as line 106 spells a
\* header) follows the first occurrence of the section name, group(1) ends
\* at the end of the document and the call returns the cleaned form of
\* everything after the name
C8_RunsToEndWithoutLaterHeading ==
    \A i \in 1..Len(normalized_html) :
        (/\ pc \notin {"l72", "l93"}
         /\ LitAt(normalized_html, i, DefaultSection, TRUE)
         /\ \A k \in 1..(i - 1) : ~LitAt(normalized_html, k, DefaultSection, TRUE)
         /\ \A k \in (i + Len(DefaultSection))..Len(normalized_html) :
               ItemHeaderEnd(normalized_html, k) = 0) =>
            /\ section_match.matched
            /\ section_match.gend = Len(normalized_html) + 1
            /\ Returned =>
                  result[1] = Outcome(Between(normalized_html, i, Len(normalized_html) + 1))

\* C8: when nothing after the first occurrence of the section name reads as
\* an Item prefix ("Item N." or "Item NL." and whitespace, in any letter
\* case and whatever follows), group(1) ends at the end of the document and
\* the call returns the cleaned form of everything after the name
C8_LastSectionRunsToEnd ==
    \A i \in 1..Len(normalized_html) :
        (/\ pc \notin {"l72", "l93"}
         /\ LitAt(normalized_html, i, DefaultSection, TRUE)
         /\ \A k \in 1..(i - 1) : ~LitAt(normalized_html, k, DefaultSection, TRUE)
         /\ \A k \in (i + Len(DefaultSection))..Len(normalized_html) :
               ~ItemPrefixAt(normalized_html, k)) =>
            /\ section_match.matched
            /\ section_match.gend = Len(normalized_html) + 1
            /\ Returned =>
                  result[1] = Outcome(Between(normalized_html, i, Len(normalized_html) + 1))

\* the section ran to the end of a document that has no Item prefix after
\* the section name, and its text was returned
C8_RanToEnd ==
    /\ pc = "returned"
    /\ section_match.matched
    /\ section_match.gstart <= Len(normalized_html)
    /\ section_match.gend = Len(normalized_html) + 1
    /\ \A k \in section_match.gstart..Len(normalized_html) :
          ~ItemPrefixAt(normalized_html, k)
    /\ result[1] # NoneVal

\* ---- C9

\* C9 as the specification states it: group(1) ends at the next
\* "Item N. Title" header with capitalised words, or at the end of the
\* document
C9_BoundaryAtTitledHeader ==
    section_match.matched =>
        /\ \A k \in section_match.gstart..(section_match.gend - 1) :
              ItemHeaderEnd(normalized_html, k) = 0
        /\ \/ section_match.gend = Len(normalized_html) + 1
           \/ ItemHeaderEnd(normalized_html, section_match.gend) # 0

\* C9: group(1) ends at the first position after the section name where
\* text of the form "Item N." or "Item NL." followed by whitespace starts,
\* in any letter case and whatever follows it, or at the end of the document
C9_BoundaryAtItemPrefix ==
    section_match.matched =>
        /\ \A k \in section_match.gstart..(section_match.gend - 1) :
              ~ItemPrefixAt(normalized_html, k)
        /\ \/ section_match.gend = Len(normalized_html) + 1
           \/ ItemPrefixAt(normalized_html, section_match.gend)

\* the section ended at a lower-case "item" inside a sentence
C9_EndsAtLowerCaseItem ==
    /\ section_match.matched
    /\ LitAt(normalized_html, section_match.gend, <<"i","t","e","m"," ","7","."," ","b","e","l","o","w">>, FALSE)

\* ---- C10

\* the text holds no decimal digit
NoDigit(t) == \A k \in 1..Len(t) : t[k] \notin Digit

\* C10: after the number removal of line 104 the text holds no digit, at
\* line 106 the header pattern matches nowhere, and a returned text holds
\* no digit
C10_NoDigitInOutput ==
    /\ pc \in {"l105", "l106", "l107", "l109"} => NoDigit(extracted_text)
    /\ pc = "l106" =>
          /\ \A k \in 1..Len(extracted_text) : ItemHeaderEnd(extracted_text, k) = 0
          /\ RemoveItemHeaders(extracted_text) = extracted_text
    /\ Succeeded => NoDigit(result[1])

\* a header whose number was removed reaches line 106 and stays
C10_HeaderWithoutNumber ==
    /\ pc = "l106"
    /\ \E k \in 1..Len(extracted_text) : LitAt(extracted_text, k, <<"I","t","e","m"," ","."," ","L","e","g","a","l"," ","T","h","i","n","g","s">>, FALSE)

====
